---------------------------- MODULE Spec2Model ----------------------------
(***************************************************************************)
(* A state-machine model of the simulation core of the `prim` 2D engine:   *)
(* the CPU particle simulation (src/src/particle_system/systems.rs) and    *)
(* the spatial collision grid (src/src/collision.rs), driven by the frame  *)
(* schedule of src/src/state.rs.                                           *)
(*                                                                         *)
(* Numbers.  The code computes with f32.  The model uses exact fixed-point *)
(* integers instead:                                                       *)
(*   - times are counted in ticks, TicksPerSecond ticks to the second;     *)
(*     `x.floor()` of a time of t ticks is (t \div TicksPerSecond) seconds;*)
(*   - positions are counted in half units (a coordinate of p stands for   *)
(*     p/2), scales in whole units, so that `position - scale/2` is the    *)
(*     integer p - s in half units.                                        *)
(* Rounding error of f32 arithmetic is therefore outside the model.        *)
(*                                                                         *)
(* Scheduling.  bevy_ecs runs the systems of a parallel stage in any order *)
(* that respects their label/after constraints, and applies the Commands   *)
(* the systems queued when the stage ends.  A system is one atomic action; *)
(* `ran` holds the systems that have run in the current stage; the command *)
(* queues are state of their own and are applied by the Apply... actions.  *)
(***************************************************************************)
EXTENDS Integers, Sequences, FiniteSets, Bags, TLC

VARIABLES
    \* ---- frame schedule (src/src/state.rs)
    stage,                \* "idle" | "pre_update" | "update": the stage being run
    ran,                  \* the systems that have run in the current stage
    delta_seconds,        \* Time.delta_seconds of the current frame, in ticks
    time_scale,           \* the Option<TimeScale> resource: NoScale or a factor
    \* ---- the emitter entity (ParticleSystemBundle)
    emitter_alive,        \* the emitter entity is in the store
    playing,              \* the emitter carries the Playing marker
    particle_system,      \* its ParticleSystem configuration (immutable)
    particle_count,       \* ParticleCount.0
    running_time,         \* RunningState.running_time, in ticks
    current_second,       \* RunningState.current_second, in seconds
    spawned_this_second,  \* RunningState.spawned_this_second
    burst_index,          \* BurstIndex.0 (0-based, as in the code)
    \* ---- particle entities
    particles,            \* bag of live particle entities
    spawn_queue,          \* bag of particles queued by spawn_bundle commands
    emitter_cmd,          \* "none" | "despawn" | "remove_playing": queued command
    \* ---- history of the current frame (observers, read by no action guard)
    count_at_frame_start, \* ParticleCount when the frame began
    spawned_this_frame,   \* particle entities created for the emitter this frame
    destroyed_this_frame, \* particle entities of the emitter destroyed this frame
    destroyed_ever,       \* some particle of the emitter has been destroyed
    reached,              \* burst indices whose offset running_time has reached
    newly_reached,        \* those first reached in the current frame
    several_reached,      \* some frame first reached two or more burst offsets
    wrapped_or_finished,  \* running_time has reached system_duration_seconds
    fired,                \* burst entries fired since the emitter last wrapped
    last_fired,           \* the entry fired by the latest spawner run, else 0
    \* ---- the collision grid (src/src/collision.rs)
    hash_grid,            \* HashGrid.size
    entities,             \* the spatial entities in the store
    instance,             \* Instance2D of each entity: position and scale
    collidable,           \* the entities that carry Collidable
    collider,             \* the tags T for which an entity carries Collider<T>
    collides_with,        \* the tags T for which it carries CollidesWith<T>
    hash_marker,          \* HashMarker of each entity, or NoMarker
    changed,              \* entities whose Instance2D was added or written
                          \* since update_hash_marker last ran
    colliding,            \* Colliding<T> of each entity and tag
    marker_queue,         \* HashMarker inserts queued by insert_hash_marker
    colliding_queue,      \* Colliding<T> inserts/removes queued by collisions<T>
    \* ---- one call of round_to_nearest on its own (src/src/collision.rs)
    round_x,              \* the f32 argument i
    round_g,              \* the i32 argument incr
    round_out,            \* the outcomes of the call on i and on -i, or NotCalled
    \* ---- one call of get_with_neighbors on its own (grid size round_g)
    neighbors_of,         \* the cell of the HashMarker
    neighbors_out,        \* the outcome of the call, or NoNeighborsCall
    \* ---- input (src/src/input.rs, src/src/state.rs)
    keyboard,             \* State.keyboard: the Keyboard that collects events
    world_keyboard,       \* the Keyboard resource the frame's systems read
    mouse,                \* State.mouse
    world_mouse,          \* the Mouse resource the frame's systems read
    key_events,           \* history: key events since the last State::update
                          \* and the keys held (pressed, not released since)
    frame_key_events,     \* history: key_events as of the last State::update
    \* ---- rendering (src/src/state.rs)
    instance_query,       \* the entities collect_instances iterates, in query
                          \* order: the shape id of each and whether it is in
                          \* the camera's view
    sort_renderables,     \* RenderState.sort_renderables
    renderables,          \* Renderables: the shape id of each collected instance
    draw_calls,           \* the draw_shape2d_instanced calls of the render pass
    render_step           \* what runs next: "collect", "pass" or "presented"

particle_vars == <<emitter_alive, playing, particle_system, particle_count,
                   running_time, current_second, spawned_this_second,
                   burst_index, particles, spawn_queue, emitter_cmd>>
history_vars == <<count_at_frame_start, spawned_this_frame,
                  destroyed_this_frame, destroyed_ever, reached,
                  newly_reached, several_reached, wrapped_or_finished,
                  fired, last_fired>>
schedule_vars == <<stage, ran, delta_seconds, time_scale>>
collision_vars == <<hash_grid, entities, instance, collidable, collider,
                    collides_with, hash_marker, changed, colliding,
                    marker_queue, colliding_queue>>
round_vars == <<round_x, round_g, round_out, neighbors_of, neighbors_out>>
input_vars == <<keyboard, world_keyboard, mouse, world_mouse,
                key_events, frame_key_events>>

\* what the systems of the particle and collision stages leave alone
render_vars == <<instance_query, sort_renderables, renderables, draw_calls,
                 render_step>>
other_vars == <<round_vars, input_vars, render_vars>>

vars == <<schedule_vars, particle_vars, history_vars, collision_vars, other_vars>>

----------------------------------------------------------------------------
(* Bounds of the model *)

TicksPerSecond == 3     \* time resolution: ticks to the second
MaxDelta == 2           \* largest frame delta, in ticks
MaxParticlesCap == 2    \* max_particles ranges over 1..MaxParticlesCap
MaxRunningTime == 6     \* frames that would advance a looping emitter's
                        \* running_time beyond this many ticks are left out

NoScale == -1           \* Option<TimeScale> = None

Min(a, b) == IF a < b THEN a ELSE b
Max(a, b) == IF a > b THEN a ELSE b

\* x.floor() of a time in ticks, in whole seconds
FloorSeconds(t) == t \div TicksPerSecond

\* x - x.floor() of a time in ticks, in ticks
FractionalTicks(t) == t % TicksPerSecond

----------------------------------------------------------------------------
(* Configurations the emitter is created with (Init draws one of each) *)

NoDistance == -1        \* Particle.max_distance = None

\* spawn_rate_per_second: a curve of the system's life percentage, in
\* particles per second.  The curves of the model take one value on the first
\* half of the system's life and one on the second half.
Curve(first, second) == [first |-> first, second |-> second]
Constant(v) == Curve(v, v)

\* `value.into()`: a constant curve
ConstantRates == {Constant(0), Constant(3)}
\* a rate that falls during the system's life
FallingRates == {Curve(6, 0)}
\* a rate at which no fraction of a second reaches a whole particle
SlowRates == {Constant(1)}
SpawnRates == ConstantRates \cup FallingRates \cup SlowRates
\* the rates that differ in what the throttle lets through
CurveRates == {Constant(0)} \cup SlowRates \cup FallingRates

\* bursts: ordered (time offset in ticks, count) pairs
Burst(t, c) == [time |-> t, count |-> c]
BurstLists ==
    { <<>>,
      <<Burst(0, 1), Burst(2, 1)>>,
      <<Burst(1, 2), Burst(1, 1)>> }

\* system_duration_seconds, in ticks (positive: zero and negative durations
\* are outside the caller contract)
Durations == {3, 4}

\* lifetime: the values the JitteredValue can sample, in ticks
LifetimeRanges == {{1, 2}}

\* (use_scaled_time, Option<TimeScale>) pairs
ScaleModes == {<<FALSE, NoScale>>, <<TRUE, 2>>, <<TRUE, 0>>}

ParticleSystems ==
    [ max_particles : 1..MaxParticlesCap,
      spawn_rate_per_second : SpawnRates,
      system_duration_seconds : Durations,
      looping : BOOLEAN,
      despawn_on_finish : BOOLEAN,   \* read only when looping is false
      bursts : BurstLists,
      lifetime : LifetimeRanges,
      max_distance : {NoDistance, 2},
      initial_velocity : {1},
      use_scaled_time : BOOLEAN ]

----------------------------------------------------------------------------
(* Bags of particle entities *)

RECURSIVE SumCounts(_, _)
SumCounts(B, S) ==
    IF S = {} THEN 0
    ELSE LET p == CHOOSE x \in S : TRUE
         IN  B[p] + SumCounts(B, S \ {p})

\* the bag of f(p) for the particles p of bag B
BagMap(B, f(_)) ==
    [q \in {f(p) : p \in DOMAIN B} |->
        SumCounts(B, {p \in DOMAIN B : f(p) = q})]

\* the sub-bag of the particles of B that satisfy keep
BagFilter(B, keep(_)) ==
    [p \in {x \in DOMAIN B : keep(x)} |-> B[p]]

NewParticle_Aged(m) ==
    [lifetime |-> delta_seconds, max_lifetime |-> m, distance |-> 0,
     max_distance |-> particle_system.max_distance, despawning |-> FALSE]

\* ParticleBundle as particle_spawner builds it: Lifetime and
\* DistanceTraveled start at zero, max_lifetime is sampled, max_distance copied
NewParticle(m) ==
    [lifetime |-> 0, max_lifetime |-> m, distance |-> 0,
     max_distance |-> particle_system.max_distance, despawning |-> FALSE]

\* the ways to sample max_lifetime for n new particles: every bag of n
\* particles with max_lifetime in the configured range
SpawnChoices(n) ==
    LET L == particle_system.lifetime
        split == {b \in [L -> 0..n] : SumCounts(b, L) = n}
    IN  { [r \in {NewParticle(m) : m \in {x \in L : b[x] > 0}} |->
              b[r.max_lifetime]] : b \in split }

----------------------------------------------------------------------------
(* The particle systems, src/src/particle_system/systems.rs *)

UpdateSystems == {"particle_spawner", "particle_lifetime",
                  "particle_transform", "particle_cleanup"}

SpawnerTimeScale_Always == IF time_scale = NoScale THEN 1 ELSE time_scale

\* particle_spawner, lines 55-59: the factor applied to the frame delta
SpawnerTimeScale ==
    IF particle_system.use_scaled_time
    THEN (IF time_scale = NoScale THEN 1 ELSE time_scale)
    ELSE 1

\* lines 60-65: running_time after the time advance, and the per-second
\* bucket after the check for a new integer second
AdvancedTime == running_time + delta_seconds * SpawnerTimeScale

NewSecond(rt) == 2 * FloorSeconds(rt) > 2 * current_second + 1

\* lines 90-91: pct = running_time / system_duration_seconds and
\* spawn_rate_per_second.at_lifetime_pct(pct), for running_time rt
at_lifetime_pct(curve, rt) ==
    IF 2 * rt < particle_system.system_duration_seconds
    THEN curve.first ELSE curve.second

CurrentSpawnRate(rt) ==
    at_lifetime_pct(particle_system.spawn_rate_per_second, rt)

\* lines 89-97: the throttled spawn count,
\* floor(fractional_second * rate - spawned_this_second) clamped by
\* .min(remaining_particles).max(0.0)
ThrottledSpawn(rt, spawned, count) ==
    LET remaining_particles == particle_system.max_particles - count
        current_spawn_rate == CurrentSpawnRate(rt)
        wanted == ((FractionalTicks(rt) * current_spawn_rate)
                      \div TicksPerSecond) - spawned
    IN  Max(Min(wanted, remaining_particles), 0)

\* lines 99-107: the burst that fires, if any: bursts.get(burst_index) exists
\* and its time offset has been reached
BurstFires_Strict(rt, bi) ==
    /\ particle_system.bursts # <<>>
    /\ bi < Len(particle_system.bursts)
    /\ rt > particle_system.bursts[bi + 1].time

BurstFires(rt, bi) ==
    /\ particle_system.bursts # <<>>
    /\ bi < Len(particle_system.bursts)
    /\ rt >= particle_system.bursts[bi + 1].time

BurstIndexAfterBurst_Stay(rt, bi) == bi

\* line 104: burst_index.0 += 1 when the burst fires
BurstIndexAfterBurst(rt, bi) == IF BurstFires(rt, bi) THEN bi + 1 ELSE bi

BurstExtra(rt, bi) ==
    IF BurstFires(rt, bi) THEN particle_system.bursts[bi + 1].count ELSE 0

\* lines 108-114: force one particle when the throttle gave none
ForcedSpawn_EveryFrame(to_spawn, spawned, count, current_spawn_rate) ==
    IF /\ to_spawn = 0
       /\ count < particle_system.max_particles
       /\ current_spawn_rate > 0
    THEN 1
    ELSE to_spawn

ForcedSpawn(to_spawn, spawned, count, current_spawn_rate) ==
    IF /\ to_spawn = 0
       /\ spawned = 0
       /\ count < particle_system.max_particles
       /\ current_spawn_rate > 0
    THEN 1
    ELSE to_spawn

SpawnedAfterSpawn_WithBurst(spawned, to_spawn, extra) ==
    spawned + to_spawn + extra

\* line 147: the per-second counter after spawning
SpawnedAfterSpawn(spawned, to_spawn, extra) == spawned + to_spawn

CountAfterSpawn_NoBurst(count, to_spawn, extra) == count + to_spawn

CountAfterSpawn_Clamped(count, to_spawn, extra) ==
    Min(count + to_spawn + extra, particle_system.max_particles)

\* line 148: ParticleCount after spawning
CountAfterSpawn(count, to_spawn, extra) == count + to_spawn + extra

\* burst offsets that running_time rt has reached (history only)
OffsetsReached(rt) ==
    {k \in 1..Len(particle_system.bursts) : rt >= particle_system.bursts[k].time}

FinishCommand_AnyCount(count) ==
    IF particle_system.despawn_on_finish THEN "despawn" ELSE "remove_playing"

FinishCommand_LastParticle(count) ==
    IF count <= 1
    THEN (IF particle_system.despawn_on_finish
          THEN "despawn" ELSE "remove_playing")
    ELSE emitter_cmd

FinishCommand_PauseOnly(count) ==
    IF count = 0 THEN "remove_playing" ELSE emitter_cmd

\* lines 74-80: a finished emitter without particles is despawned, or loses
\* its Playing marker
FinishCommand(count) ==
    IF count = 0
    THEN (IF particle_system.despawn_on_finish
          THEN "despawn" ELSE "remove_playing")
    ELSE emitter_cmd

AtCapacity_Above(count) == count > particle_system.max_particles

\* lines 85-87: the capacity check
AtCapacity(count) == count >= particle_system.max_particles

BurstIndexAfterWrap_NoReset(wraps, bi) == bi

\* line 72: burst_index.0 = 0 when a looping emitter wraps
BurstIndexAfterWrap(wraps, bi) == IF wraps THEN 0 ELSE bi

SpawnerMatches_NoFilter == emitter_alive

\* lines 30-41: the query matches emitters With<Playing>
SpawnerMatches == emitter_alive /\ playing

\* One run of particle_spawner over the emitters that carry Playing.
particle_spawner ==
    /\ stage = "update"
    /\ UNCHANGED <<collision_vars, other_vars>>
    /\ "particle_spawner" \notin ran
    /\ ran' = ran \cup {"particle_spawner"}
    /\ UNCHANGED <<stage, delta_seconds, time_scale, emitter_alive, playing,
                   particle_system, particles, count_at_frame_start,
                   spawned_this_frame, destroyed_this_frame, destroyed_ever>>
    /\ IF ~SpawnerMatches
       THEN UNCHANGED <<particle_count, running_time, current_second,
                        spawned_this_second, burst_index, spawn_queue,
                        emitter_cmd, reached, newly_reached,
                        several_reached, wrapped_or_finished, fired>>
            /\ last_fired' = 0
       ELSE
       LET rt1 == AdvancedTime
           sec1 == IF NewSecond(rt1) THEN FloorSeconds(rt1) ELSE current_second
           sp1 == IF NewSecond(rt1) THEN 0 ELSE spawned_this_second
           duration == particle_system.system_duration_seconds
           over == rt1 >= duration
           wraps == over /\ particle_system.looping
           finished == over /\ ~particle_system.looping
           rt2 == IF wraps THEN rt1 - duration ELSE rt1
           sec2 == IF wraps THEN FloorSeconds(rt2) ELSE sec1
           sp2 == IF wraps THEN 0 ELSE sp1
           bi2 == BurstIndexAfterWrap(wraps, burst_index)
           full == AtCapacity(particle_count)
           throttled == ThrottledSpawn(rt2, sp2, particle_count)
           extra == BurstExtra(rt2, bi2)
           bi3 == BurstIndexAfterBurst(rt2, bi2)
           to_spawn == ForcedSpawn(throttled, sp2, particle_count,
                                   CurrentSpawnRate(rt2))
           fires == ~finished /\ ~full /\ BurstFires(rt2, bi2)
       IN
       /\ running_time' = rt2
       /\ current_second' = sec2
       /\ reached' = reached \cup OffsetsReached(rt1)
       /\ newly_reached' = newly_reached \cup (OffsetsReached(rt1) \ reached)
       /\ several_reached' =
             (several_reached \/ Cardinality(OffsetsReached(rt1) \ reached) > 1)
       /\ wrapped_or_finished' = (wrapped_or_finished \/ over)
       /\ fired' = (IF wraps THEN {} ELSE fired)
                      \cup (IF fires THEN {bi2 + 1} ELSE {})
       /\ last_fired' = (IF fires THEN bi2 + 1 ELSE 0)
       /\ IF finished
          THEN \* lines 73-82: queue the despawn or the pause at zero particles
               /\ emitter_cmd' = FinishCommand(particle_count)
               /\ spawned_this_second' = sp2
               /\ UNCHANGED <<particle_count, burst_index, spawn_queue>>
          ELSE IF full
          THEN \* lines 85-87
               /\ spawned_this_second' = sp2
               /\ burst_index' = bi2
               /\ UNCHANGED <<particle_count, spawn_queue, emitter_cmd>>
          ELSE IF to_spawn = 0 /\ extra = 0
          THEN \* lines 116-118
               /\ spawned_this_second' = sp2
               /\ burst_index' = bi3
               /\ UNCHANGED <<particle_count, spawn_queue, emitter_cmd>>
          ELSE \* lines 120-148
               /\ \E born \in SpawnChoices(to_spawn + extra) :
                     spawn_queue' = spawn_queue (+) born
               /\ spawned_this_second' = SpawnedAfterSpawn(sp2, to_spawn, extra)
               /\ particle_count' = CountAfterSpawn(particle_count, to_spawn, extra)
               /\ burst_index' = bi3
               /\ UNCHANGED emitter_cmd

\* particle_lifetime, lines 159-166: the factor applied to the frame delta;
\* the parent's use_scaled_time counts only while the parent is in the store
LifetimeTimeScale ==
    IF time_scale # NoScale /\ emitter_alive /\ particle_system.use_scaled_time
    THEN time_scale
    ELSE 1

\* line 167
Aged(p) ==
    [p EXCEPT !.lifetime = @ + delta_seconds * LifetimeTimeScale]

particle_lifetime ==
    /\ stage = "update"
    /\ UNCHANGED <<collision_vars, other_vars>>
    /\ "particle_lifetime" \notin ran
    /\ ran' = ran \cup {"particle_lifetime"}
    /\ particles' = BagMap(particles, Aged)
    /\ UNCHANGED <<stage, delta_seconds, time_scale, emitter_alive, playing,
                   particle_system, particle_count, running_time,
                   current_second, spawned_this_second, burst_index,
                   spawn_queue, emitter_cmd, history_vars>>

\* particle_transform, lines 205-210
TransformTimeScale ==
    IF particle_system.use_scaled_time /\ time_scale # NoScale
    THEN time_scale
    ELSE 1

\* lines 211-219 with a constant velocity (acceleration 0) along a unit
\* direction: the position moves by velocity * delta * scale and
\* DistanceTraveled grows by the length of that move
Moved(p) ==
    [p EXCEPT !.distance = @ + particle_system.initial_velocity
                                 * delta_seconds * TransformTimeScale]

particle_transform ==
    /\ stage = "update"
    /\ UNCHANGED <<collision_vars, other_vars>>
    /\ "particle_transform" \notin ran
    /\ ran' = ran \cup {"particle_transform"}
    /\ particles' = IF emitter_alive THEN BagMap(particles, Moved) ELSE particles
    /\ UNCHANGED <<stage, delta_seconds, time_scale, emitter_alive, playing,
                   particle_system, particle_count, running_time,
                   current_second, spawned_this_second, burst_index,
                   spawn_queue, emitter_cmd, history_vars>>

Expired_LifetimeOnly(p) == p.lifetime >= p.max_lifetime

\* particle_cleanup, lines 231-232
Expired(p) ==
    \/ p.lifetime >= p.max_lifetime
    \/ (p.max_distance # NoDistance /\ p.distance >= p.max_distance)

CountAfterCleanup_Unchecked(count, n) == count - n

\* lines 234-238, once per expired particle: n saturating decrements
CountAfterCleanup(count, n) == Max(count - n, 0)

Despawning(p) == [p EXCEPT !.despawning = TRUE]

MarkExpired(p) == IF Expired(p) THEN Despawning(p) ELSE p

particle_cleanup ==
    /\ stage = "update"
    /\ UNCHANGED <<collision_vars, other_vars>>
    /\ "particle_cleanup" \notin ran
    /\ ran' = ran \cup {"particle_cleanup"}
    /\ particles' = BagMap(particles, MarkExpired)
    /\ particle_count' =
          IF emitter_alive
          THEN CountAfterCleanup(particle_count,
                                 BagCardinality(BagFilter(particles, Expired)))
          ELSE particle_count
    /\ UNCHANGED <<stage, delta_seconds, time_scale, emitter_alive, playing,
                   particle_system, running_time, current_second,
                   spawned_this_second, burst_index, spawn_queue, emitter_cmd,
                   history_vars>>

----------------------------------------------------------------------------
(* The frame, src/src/state.rs *)

IsDespawning(p) == p.despawning
Survives(p) == ~p.despawning

\* End of the update stage: the Commands queued by its systems are applied
\* (despawn of expired particles, spawn of new ones, despawn or pause of a
\* finished emitter).
ApplyUpdateCommands ==
    /\ stage = "update"
    /\ UNCHANGED <<collision_vars, other_vars>>
    /\ ran = UpdateSystems
    /\ stage' = "idle"
    /\ ran' = {}
    /\ particles' = BagFilter(particles, Survives) (+) spawn_queue
    /\ spawn_queue' = EmptyBag
    /\ emitter_alive' = (emitter_alive /\ emitter_cmd # "despawn")
    /\ playing' = (playing /\ emitter_cmd = "none")
    /\ emitter_cmd' = "none"
    /\ spawned_this_frame' = BagCardinality(spawn_queue)
    /\ destroyed_this_frame' = BagCardinality(BagFilter(particles, IsDespawning))
    /\ destroyed_ever' =
          (destroyed_ever \/ BagFilter(particles, IsDespawning) # EmptyBag)
    /\ UNCHANGED <<delta_seconds, time_scale, particle_system, particle_count,
                   running_time, current_second, spawned_this_second,
                   burst_index, count_at_frame_start, reached, newly_reached,
                   several_reached, wrapped_or_finished, fired, last_fired>>

\* State::update runs the schedule once per frame; update_time (pre_update)
\* sets Time.delta_seconds to the time since the previous frame.
BeginFrame(d) ==
    /\ stage = "idle"
    /\ UNCHANGED <<collision_vars, other_vars>>
    /\ (emitter_alive /\ playing /\ particle_system.looping)
          => running_time + d * SpawnerTimeScale <= MaxRunningTime
    /\ stage' = "update"
    /\ ran' = {}
    /\ delta_seconds' = d
    /\ count_at_frame_start' = particle_count
    /\ spawned_this_frame' = 0
    /\ destroyed_this_frame' = 0
    /\ newly_reached' = {}
    /\ UNCHANGED <<time_scale, particle_vars, other_vars, destroyed_ever, reached,
                   several_reached, wrapped_or_finished, fired, last_fired>>

\* Keyboard::default() and Mouse::default(): three empty sets
NoButtons ==
    [just_pressed |-> {}, currently_pressed |-> {}, just_released |-> {}]

NoKeyEvents == [pressed |-> {}, released |-> {}, held |-> {}]

\* No input event arrives: State.keyboard and State.mouse stay as State::new
\* made them, and State::update copies them to the world unchanged
NoInput ==
    /\ keyboard = NoButtons
    /\ world_keyboard = NoButtons
    /\ mouse = NoButtons
    /\ world_mouse = NoButtons
    /\ key_events = NoKeyEvents
    /\ frame_key_events = NoKeyEvents

\* Nothing to render: no entity carries an Inst, State::new leaves
\* sort_renderables false and Renderables empty
NoRender ==
    /\ instance_query = <<>>
    /\ sort_renderables = FALSE
    /\ renderables = <<>>
    /\ draw_calls = <<>>
    /\ render_step = "collect"

\* round_to_nearest not called on its own
NotCalled ==
    [called |-> FALSE,
     of_i |-> [panic |-> FALSE, value |-> 0],
     of_neg |-> [panic |-> FALSE, value |-> 0]]

\* get_with_neighbors not called on its own
NoNeighborsCall == [called |-> FALSE, panic |-> FALSE, cells |-> <<>>]

NoRoundCall ==
    /\ round_x = [trunc |-> 0, sign |-> 0]
    /\ round_g = 1
    /\ round_out = NotCalled
    /\ neighbors_of = <<0, 0>>
    /\ neighbors_out = NoNeighborsCall

\* A world without spatial entities
NoEntities ==
    /\ hash_grid = 1
    /\ entities = {}
    /\ instance = <<>>
    /\ collidable = {}
    /\ collider = <<>>
    /\ collides_with = <<>>
    /\ hash_marker = <<>>
    /\ changed = {}
    /\ colliding = <<>>
    /\ marker_queue = <<>>
    /\ colliding_queue = <<>>

\* The particle examples register no collision system
NoCollisionEntities ==
    /\ NoRoundCall
    /\ NoInput
    /\ NoRender
    /\ NoEntities

\* The world after spawn_world: one emitter with default run state, its
\* spawn rate one of the curves given.
InitEmitterModes(rates, modes) ==
    /\ NoCollisionEntities
    /\ stage = "idle"
    /\ ran = {}
    /\ delta_seconds = 0
    /\ particle_system \in ParticleSystems
    /\ particle_system.spawn_rate_per_second \in rates
    /\ particle_system.looping => particle_system.despawn_on_finish
    /\ time_scale \in {NoScale, 0, 2}
    /\ <<particle_system.use_scaled_time, time_scale>> \in modes
    /\ emitter_alive = TRUE
    /\ playing \in BOOLEAN
    /\ particle_count = 0
    /\ running_time = 0
    /\ current_second = 0
    /\ spawned_this_second = 0
    /\ burst_index = 0
    /\ particles = EmptyBag
    /\ spawn_queue = EmptyBag
    /\ emitter_cmd = "none"
    /\ count_at_frame_start = 0
    /\ spawned_this_frame = 0
    /\ destroyed_this_frame = 0
    /\ destroyed_ever = FALSE
    /\ reached = {}
    /\ newly_reached = {}
    /\ several_reached = FALSE
    /\ wrapped_or_finished = FALSE
    /\ fired = {}
    /\ last_fired = 0

\* use_scaled_time set with the resource present or absent; the resource is
\* not varied for an emitter that does not use it
InitEmitter(rates) == InitEmitterModes(rates, ScaleModes)

\* The emitters of the examples: constant spawn rates
Init == InitEmitter(ConstantRates)

\* A playing emitter on unscaled time, its spawn rate constant or falling
InitCurve ==
    /\ InitEmitter(CurveRates)
    /\ playing
    /\ ~particle_system.use_scaled_time
    /\ time_scale = NoScale

Next ==
    \/ \E d \in 0..MaxDelta : BeginFrame(d)
    \/ particle_spawner
    \/ particle_lifetime
    \/ particle_transform
    \/ particle_cleanup
    \/ ApplyUpdateCommands

Spec == Init /\ [][Next]_vars

SpecCurve == InitCurve /\ [][Next]_vars

\* Every combination of use_scaled_time and Res<Option<TimeScale>>, for a
\* playing emitter without bursts at a rate of 3 per second
AllScaleModes == BOOLEAN \X {NoScale, 0, 2}

InitScale ==
    /\ InitEmitterModes({Constant(3)}, AllScaleModes)
    /\ playing
    /\ particle_system.bursts = <<>>

SpecScale == InitScale /\ [][Next]_vars

\* Game code takes the Playing marker off the emitter between two frames
\* (the marker is a public component: the game inserts it to start an
\* emitter and removes it to pause one).
Pause ==
    /\ stage = "idle"
    /\ emitter_alive
    /\ playing
    /\ playing' = FALSE
    /\ UNCHANGED <<schedule_vars, emitter_alive, particle_system,
                   particle_count, running_time, current_second,
                   spawned_this_second, burst_index, particles, spawn_queue,
                   emitter_cmd, history_vars, collision_vars, other_vars>>

\* The emitter starts with the Playing marker, as spawn_world inserts it
InitPaused ==
    /\ Init
    /\ playing
    /\ particle_system.system_duration_seconds = 3

NextPaused ==
    \/ Next
    \/ Pause

SpecPaused == InitPaused /\ [][NextPaused]_vars

\* Game code despawns the emitter entity between two frames; its particles
\* keep a parent_system that is no longer in the store.
DespawnEmitter ==
    /\ stage = "idle"
    /\ emitter_alive
    /\ emitter_alive' = FALSE
    /\ playing' = FALSE
    /\ UNCHANGED <<schedule_vars, particle_system, particle_count,
                   running_time, current_second, spawned_this_second,
                   burst_index, particles, spawn_queue, emitter_cmd,
                   history_vars, collision_vars, other_vars>>

\* Game code puts a fresh ParticleCount on the emitter (inserting the
\* bundle's default again) while particles of it are live.
ResetCount ==
    /\ stage = "idle"
    /\ emitter_alive
    /\ particle_count > 0
    /\ particle_count' = 0
    /\ UNCHANGED <<schedule_vars, emitter_alive, playing, particle_system,
                   running_time, current_second, spawned_this_second,
                   burst_index, particles, spawn_queue, emitter_cmd,
                   history_vars, collision_vars, other_vars>>

\* A playing burst emitter on unscaled time
InitCleanup ==
    /\ Init
    /\ playing
    /\ particle_system.spawn_rate_per_second = Constant(0)
    /\ particle_system.system_duration_seconds = 3
    /\ particle_system.bursts # <<>>
    /\ ~particle_system.use_scaled_time
    /\ time_scale = NoScale

NextCleanup ==
    \/ Next
    \/ DespawnEmitter
    \/ ResetCount

SpecCleanup == InitCleanup /\ [][NextCleanup]_vars

\* The frame loop never stops (lib.rs: every redraw request runs
\* State::update), and here every frame has a positive delta.
PositiveFrame == \E d \in 1..MaxDelta : BeginFrame(d)

NextLive ==
    \/ PositiveFrame
    \/ particle_spawner
    \/ particle_lifetime
    \/ particle_transform
    \/ particle_cleanup
    \/ ApplyUpdateCommands

\* A playing one-shot emitter with despawn_on_finish, on which time advances
InitOneShot ==
    /\ Init
    /\ playing
    /\ ~particle_system.looping
    /\ particle_system.despawn_on_finish
    /\ SpawnerTimeScale > 0

LiveSpec == InitOneShot /\ [][NextLive]_vars /\ WF_vars(NextLive)

----------------------------------------------------------------------------
(* The collision grid, src/src/collision.rs *)

Tags == {"A", "B"}

\* HashMarker absent
NoMarker == <<>>

\* Colliding<T> absent, and Colliding<T>(list)
NoColliding == [present |-> FALSE, list |-> <<>>]
Colliding(list) == [present |-> TRUE, list |-> list]

Vec2(x, y) == [x |-> x, y |-> y]

I32Max == 2147483647
I32Min == -I32Max - 1

Abs(n) == IF n < 0 THEN -n ELSE n

\* An f32 coordinate i as round_to_nearest reads it: trunc is `i as i32`
\* (truncation towards zero, saturating at the ends of i32, 0 for NaN) and
\* sign is the sign of i (-1 when `i < 0.0`).
F32(trunc, sign) == [trunc |-> trunc, sign |-> sign]

\* the coordinate of p half units
F32Half(p) ==
    F32(IF p < 0 THEN -(Abs(p) \div 2) ELSE p \div 2,
        IF p < 0 THEN -1 ELSE IF p = 0 THEN 0 ELSE 1)

\* -i: no f32 truncates to I32Max except by saturation (i >= 2^31), and
\* then -i saturates to I32Min
Negated(i) ==
    F32(IF i.trunc = I32Max THEN I32Min
        ELSE IF i.trunc = I32Min THEN I32Max
        ELSE -i.trunc,
        -i.sign)

\* the outcome of a call: a value, or the panic of an overflow check
Returned(v) == [panic |-> FALSE, value |-> v]
Panic == [panic |-> TRUE, value |-> 0]

\* the i32 remainder a % b of Rust (sign of the dividend), b > 0
Rem(a, b) ==
    IF a >= 0 THEN a % b
    ELSE IF a % b = 0 THEN 0 ELSE (a % b) - b

\* round_to_nearest(i, incr).  i32 arithmetic that overflows panics in a
\* build with overflow checks (debug) and wraps in one without (release).
round_to_nearest(i, incr, overflow_checks) ==
    LET half == incr \div 2
        abs_overflows == i.trunc = I32Min
        abs == IF abs_overflows THEN I32Min ELSE Abs(i.trunc)
        add_overflows == abs >= 0 /\ abs > I32Max - half
        res0 == IF add_overflows
                THEN I32Min + (half - (I32Max - abs) - 1)
                ELSE abs + half
        res == res0 - Rem(res0, incr)
        neg_overflows == i.sign = -1 /\ res = I32Min
    IN  IF overflow_checks /\ (abs_overflows \/ add_overflows \/ neg_overflows)
        THEN Panic
        ELSE IF i.sign = -1 /\ ~neg_overflows THEN Returned(-res)
        ELSE Returned(res)

\* HashGridVec::current_hash_grid, for a position in half units
current_hash_grid(position, grid_size) ==
    <<round_to_nearest(F32Half(position.x), grid_size, TRUE).value,
      round_to_nearest(F32Half(position.y), grid_size, TRUE).value>>

get_with_neighbors_OwnCellTwice(cell, grid_size) ==
    << cell,
       <<cell[1], cell[2] + grid_size>>,
       <<cell[1], cell[2] - grid_size>>,
       <<cell[1] + grid_size, cell[2]>>,
       <<cell[1] - grid_size, cell[2]>>,
       <<cell[1] + grid_size, cell[2] - grid_size>>,
       <<cell[1] + grid_size, cell[2] + grid_size>>,
       <<cell[1] - grid_size, cell[2] - grid_size>>,
       cell >>

get_with_neighbors_NoDiagonals(cell, grid_size) ==
    << cell,
       <<cell[1], cell[2] + grid_size>>,
       <<cell[1], cell[2] - grid_size>>,
       <<cell[1] + grid_size, cell[2]>>,
       <<cell[1] - grid_size, cell[2]>> >>

\* i32 a + b and a - b for b > 0, wrapping at the ends of i32
AddI32(a, b) ==
    IF a > I32Max - b THEN I32Min + (b - (I32Max - a) - 1) ELSE a + b

SubI32(a, b) ==
    IF a < I32Min + b THEN I32Max - (b - (a - I32Min) - 1) ELSE a - b

\* one of the sums or differences of get_with_neighbors overflows i32
NeighborsOverflow(cell, grid_size) ==
    \E k \in {1, 2} :
        cell[k] > I32Max - grid_size \/ cell[k] < I32Min + grid_size

\* HashMarker::get_with_neighbors, in the order of the code (the values of a
\* build without overflow checks; see NeighborsOverflow)
get_with_neighbors(cell, grid_size) ==
    << cell,
       <<cell[1], AddI32(cell[2], grid_size)>>,
       <<cell[1], SubI32(cell[2], grid_size)>>,
       <<AddI32(cell[1], grid_size), cell[2]>>,
       <<SubI32(cell[1], grid_size), cell[2]>>,
       <<AddI32(cell[1], grid_size), SubI32(cell[2], grid_size)>>,
       <<AddI32(cell[1], grid_size), AddI32(cell[2], grid_size)>>,
       <<SubI32(cell[1], grid_size), SubI32(cell[2], grid_size)>>,
       <<SubI32(cell[1], grid_size), AddI32(cell[2], grid_size)>> >>

overlapping_HalfOpen(a, b) ==
    /\ a.position.x - a.scale.x <= b.position.x + b.scale.x
    /\ a.position.x + a.scale.x > b.position.x - b.scale.x
    /\ a.position.y + a.scale.y > b.position.y - b.scale.y
    /\ a.position.y - a.scale.y < b.position.y + b.scale.y

overlapping_Closed(a, b) ==
    /\ a.position.x - a.scale.x <= b.position.x + b.scale.x
    /\ a.position.x + a.scale.x >= b.position.x - b.scale.x
    /\ a.position.y + a.scale.y >= b.position.y - b.scale.y
    /\ a.position.y - a.scale.y <= b.position.y + b.scale.y

\* overlapping(a, b), in half units: position - scale / 2 is p - s
overlapping(a, b) ==
    LET a_x1 == a.position.x - a.scale.x
        a_x2 == a.position.x + a.scale.x
        b_x1 == b.position.x - b.scale.x
        b_x2 == b.position.x + b.scale.x
        a_y1 == a.position.y - a.scale.y
        a_y2 == a.position.y + a.scale.y
        b_y1 == b.position.y - b.scale.y
        b_y2 == b.position.y + b.scale.y
    IN  a_x1 < b_x2 /\ a_x2 > b_x1 /\ a_y2 > b_y1 /\ a_y1 < b_y2

\* The systems of the pre_update stage and their ordering constraints.
\* base_collision_detection(): the set's label is given to every system of
\* the set; collision_system_set::<T>(): collisions::<T> runs after the label.
CollisionsSystem == [t \in Tags |-> IF t = "A" THEN "collisions_A" ELSE "collisions_B"]

base_collision_detection_LabelFirstOnly ==
    [s \in {"update_hash_marker", "insert_hash_marker"} |->
        IF s = "update_hash_marker" THEN {"collision_update"} ELSE {}]

base_collision_detection ==
    [s \in {"update_hash_marker", "insert_hash_marker"} |-> {"collision_update"}]

collision_system_set(t) == [after |-> {"collision_update"}]

PreUpdateSystems ==
    DOMAIN base_collision_detection \cup {CollisionsSystem[t] : t \in Tags}

Labels(s) ==
    IF s \in DOMAIN base_collision_detection
    THEN base_collision_detection[s] ELSE {}

After(s) ==
    UNION {collision_system_set(t).after : t \in {u \in Tags : CollisionsSystem[u] = s}}

\* the executor starts a system once every system that carries a label it
\* is ordered after has finished
CanStart(s) ==
    /\ stage = "pre_update"
    /\ s \notin ran
    /\ \A r \in PreUpdateSystems : (Labels(r) \cap After(s) # {}) => r \in ran

UpdateMatches_Ungated(e) ==
    /\ e \in collidable
    /\ hash_marker[e] # NoMarker

\* update_hash_marker: With<Collidable>, a HashMarker, and Instance2D changed
\* or added since the system last ran
UpdateMatches(e) ==
    /\ e \in collidable
    /\ hash_marker[e] # NoMarker
    /\ e \in changed

update_hash_marker ==
    /\ CanStart("update_hash_marker")
    /\ ran' = ran \cup {"update_hash_marker"}
    /\ hash_marker' =
          [e \in entities |->
              IF UpdateMatches(e)
              THEN current_hash_grid(instance[e].position, hash_grid)
              ELSE hash_marker[e]]
    /\ changed' = {}
    /\ UNCHANGED <<stage, delta_seconds, time_scale, particle_vars, other_vars,
                   history_vars, hash_grid, entities, instance, collidable,
                   collider, collides_with, colliding, marker_queue,
                   colliding_queue>>

\* insert_hash_marker: With<Collidable>, Without<HashMarker>
InsertMatches(e) == e \in collidable /\ hash_marker[e] = NoMarker

insert_hash_marker_Immediate ==
    /\ CanStart("insert_hash_marker")
    /\ ran' = ran \cup {"insert_hash_marker"}
    /\ hash_marker' =
          [e \in entities |->
              IF InsertMatches(e)
              THEN current_hash_grid(instance[e].position, hash_grid)
              ELSE hash_marker[e]]
    /\ UNCHANGED <<stage, delta_seconds, time_scale, particle_vars, other_vars,
                   history_vars, hash_grid, entities, instance, collidable,
                   collider, collides_with, changed, colliding, marker_queue,
                   colliding_queue>>

insert_hash_marker ==
    /\ CanStart("insert_hash_marker")
    /\ ran' = ran \cup {"insert_hash_marker"}
    /\ marker_queue' =
          [e \in entities |->
              IF InsertMatches(e)
              THEN current_hash_grid(instance[e].position, hash_grid)
              ELSE marker_queue[e]]
    /\ UNCHANGED <<stage, delta_seconds, time_scale, particle_vars, other_vars,
                   history_vars, hash_grid, entities, instance, collidable,
                   collider, collides_with, hash_marker, changed, colliding,
                   colliding_queue>>

ColliderQuery_Either(t) ==
    {e \in entities :
        (t \in collider[e] \/ t \in collides_with[e])
        /\ hash_marker[e] # NoMarker}

CollideWithQuery_AnyTag(t) ==
    {e \in entities : collides_with[e] # {} /\ hash_marker[e] # NoMarker}

\* collisions::<T>, lines 163-164: the two queries
ColliderQuery(t) ==
    {e \in entities : t \in collider[e] /\ hash_marker[e] # NoMarker}

CollideWithQuery(t) ==
    {e \in entities : t \in collides_with[e] /\ hash_marker[e] # NoMarker}

\* lines 170-176: the bucket of a cell, in the order the query is iterated
\* (the store's order, here ascending identity)
RECURSIVE Ascending(_)
Ascending(S) ==
    IF S = {} THEN <<>>
    ELSE LET m == CHOOSE x \in S : \A y \in S : x <= y
         IN  <<m>> \o Ascending(S \ {m})

Bucket(t, cell) ==
    Ascending({e \in CollideWithQuery(t) : hash_marker[e] = cell})

RECURSIVE Overlaps_NotSelf(_, _)
Overlaps_NotSelf(c, bucket) ==
    IF bucket = <<>> THEN <<>>
    ELSE (IF Head(bucket) # c
             /\ overlapping(instance[c], instance[Head(bucket)])
          THEN <<Head(bucket)>> ELSE <<>>) \o Overlaps_NotSelf(c, Tail(bucket))

\* lines 182-187: the entities of a bucket that overlap the collider
RECURSIVE Overlaps(_, _)
Overlaps(c, bucket) ==
    IF bucket = <<>> THEN <<>>
    ELSE (IF overlapping(instance[c], instance[Head(bucket)])
          THEN <<Head(bucket)>> ELSE <<>>) \o Overlaps(c, Tail(bucket))

\* lines 179-189: the collisions of collider c over its cell and neighbors
RECURSIVE CollectFrom(_, _, _)
CollectFrom(t, c, cells) ==
    IF cells = <<>> THEN <<>>
    ELSE Overlaps(c, Bucket(t, Head(cells))) \o CollectFrom(t, c, Tail(cells))

Collisions(t, c) ==
    CollectFrom(t, c, get_with_neighbors(hash_marker[c], hash_grid))

NoCommand == [op |-> "none", list |-> <<>>]

CollidingCommand_NoRemove(t, c) ==
    IF Collisions(t, c) = <<>>
    THEN NoCommand
    ELSE [op |-> "insert", list |-> Collisions(t, c)]

\* lines 190-196: the command queued for collider c
CollidingCommand(t, c) ==
    IF Collisions(t, c) = <<>>
    THEN [op |-> "remove", list |-> <<>>]
    ELSE [op |-> "insert", list |-> Collisions(t, c)]

collisions(t) ==
    /\ CanStart(CollisionsSystem[t])
    /\ ran' = ran \cup {CollisionsSystem[t]}
    /\ colliding_queue' =
          [e \in entities |->
              IF e \in ColliderQuery(t)
              THEN [colliding_queue[e] EXCEPT ![t] = CollidingCommand(t, e)]
              ELSE colliding_queue[e]]
    /\ UNCHANGED <<stage, delta_seconds, time_scale, particle_vars, other_vars,
                   history_vars, hash_grid, entities, instance, collidable,
                   collider, collides_with, hash_marker, changed, colliding,
                   marker_queue>>

\* the effect of a queued command on the Colliding<T> an entity carries
Applied(cmd, old) ==
    IF cmd.op = "insert" THEN Colliding(cmd.list)
    ELSE IF cmd.op = "remove" THEN NoColliding
    ELSE old

\* End of the pre_update stage: the queued Commands are applied.
ApplyPreUpdateCommands ==
    /\ stage = "pre_update"
    /\ ran = PreUpdateSystems
    /\ stage' = "update"
    /\ ran' = {}
    /\ hash_marker' =
          [e \in entities |->
              IF marker_queue[e] # NoMarker THEN marker_queue[e]
              ELSE hash_marker[e]]
    /\ marker_queue' = [e \in entities |-> NoMarker]
    /\ colliding' =
          [e \in entities |->
              [t \in Tags |-> Applied(colliding_queue[e][t], colliding[e][t])]]
    /\ colliding_queue' = [e \in entities |-> [t \in Tags |-> NoCommand]]
    /\ UNCHANGED <<delta_seconds, time_scale, particle_vars, other_vars, history_vars,
                   hash_grid, entities, instance, collidable, collider,
                   collides_with, changed>>

\* Game logic of the update stage writes positions (space_invaders.rs,
\* player_fire_movement): here one entity is moved, or none.
CoarsePositions ==
    {Vec2(0, 0), Vec2(1, -1), Vec2(4, 1), Vec2(-3, -3), Vec2(6, 0)}

MoveEntity_Rebucket(e, position) ==
    /\ stage = "update"
    /\ entities # {}
    /\ e \in entities
    /\ position # instance[e].position
    /\ stage' = "idle"
    /\ instance' = [instance EXCEPT ![e].position = position]
    /\ changed' = changed \cup {e}
    /\ hash_marker' =
          [hash_marker EXCEPT
              ![e] = IF @ = NoMarker THEN @
                     ELSE current_hash_grid(position, hash_grid)]
    /\ UNCHANGED <<ran, delta_seconds, time_scale, particle_vars, other_vars, history_vars,
                   hash_grid, entities, collidable, collider, collides_with,
                   colliding, marker_queue, colliding_queue>>

MoveEntity(e, position) ==
    /\ stage = "update"
    /\ entities # {}
    /\ e \in entities
    /\ position # instance[e].position
    /\ stage' = "idle"
    /\ instance' = [instance EXCEPT ![e].position = position]
    /\ changed' = changed \cup {e}
    /\ UNCHANGED <<ran, delta_seconds, time_scale, particle_vars, other_vars, history_vars,
                   hash_grid, entities, collidable, collider, collides_with,
                   hash_marker, colliding, marker_queue, colliding_queue>>

\* Game logic also makes entities collidable while the game runs
\* (space_invaders.rs, player_fire: a rocket gets Collidable in an update
\* stage, long after the other entities got their cells).
InsertCollidable(e) ==
    /\ stage = "update"
    /\ e \in entities \ collidable
    /\ stage' = "idle"
    /\ collidable' = collidable \cup {e}
    /\ UNCHANGED <<ran, delta_seconds, time_scale, particle_vars, other_vars, history_vars,
                   hash_grid, entities, instance, collider, collides_with,
                   hash_marker, changed, colliding, marker_queue,
                   colliding_queue>>

NoMove ==
    /\ stage = "update"
    /\ entities # {}
    /\ stage' = "idle"
    /\ UNCHANGED <<ran, delta_seconds, time_scale, particle_vars, other_vars, history_vars,
                   collision_vars>>

\* State::update runs the schedule; pre_update comes first.
BeginCollisionFrame ==
    /\ stage = "idle"
    /\ stage' = "pre_update"
    /\ ran' = {}
    /\ UNCHANGED <<delta_seconds, time_scale, particle_vars, other_vars, history_vars,
                   collision_vars>>

\* A world without emitter (nothing for the particle systems to do)
NoEmitter ==
    /\ delta_seconds = 0
    /\ time_scale = NoScale
    /\ emitter_alive = FALSE
    /\ playing = FALSE
    /\ particle_system = <<>>
    /\ particle_count = 0
    /\ running_time = 0
    /\ current_second = 0
    /\ spawned_this_second = 0
    /\ burst_index = 0
    /\ particles = EmptyBag
    /\ spawn_queue = EmptyBag
    /\ emitter_cmd = "none"
    /\ count_at_frame_start = 0
    /\ spawned_this_frame = 0
    /\ destroyed_this_frame = 0
    /\ destroyed_ever = FALSE
    /\ reached = {}
    /\ newly_reached = {}
    /\ several_reached = FALSE
    /\ wrapped_or_finished = FALSE
    /\ fired = {}
    /\ last_fired = 0

GridSizes == {2, 3}

Scales == {Vec2(1, 1), Vec2(4, 2)}

\* Three freshly spawned entities: 1 is a Collider<A> (and may be a
\* CollidesWith<A> too), 2 a CollidesWith<A> and a Collider<B>, 3 a
\* CollidesWith<B>.  1 and 3 are Collidable from the start, 2 either from the
\* start or from a later frame.
InitCollision ==
    /\ NoEmitter
    /\ NoRoundCall
    /\ NoInput
    /\ NoRender
    /\ stage = "idle"
    /\ ran = {}
    /\ hash_grid \in GridSizes
    /\ entities = {1, 2, 3}
    /\ instance \in [entities -> [position : CoarsePositions, scale : Scales]]
    /\ collidable \in {entities, entities \ {2}}
    /\ collider = <<{"A"}, {"B"}, {}>>
    /\ collides_with \in {<<{}, {"A"}, {"B"}>>, <<{"A"}, {"A"}, {"B"}>>}
    /\ hash_marker = [e \in entities |-> NoMarker]
    /\ changed = entities
    /\ colliding = [e \in entities |-> [t \in Tags |-> NoColliding]]
    /\ marker_queue = [e \in entities |-> NoMarker]
    /\ colliding_queue = [e \in entities |-> [t \in Tags |-> NoCommand]]

NextCollision ==
    \/ BeginCollisionFrame
    \/ update_hash_marker
    \/ insert_hash_marker
    \/ \E t \in Tags : collisions(t)
    \/ ApplyPreUpdateCommands
    \/ \E e \in entities, position \in CoarsePositions : MoveEntity(e, position)
    \/ \E e \in entities : InsertCollidable(e)
    \/ NoMove

SpecCollision == InitCollision /\ [][NextCollision]_vars

\* Collidable is a public marker: game logic can take it off an entity again
\* (commands.entity(e).remove::<Collidable>()).  HashMarker is private to
\* collision.rs and no system of it removes one.
RemoveCollidable(e) ==
    /\ stage = "update"
    /\ e \in collidable
    /\ stage' = "idle"
    /\ collidable' = collidable \ {e}
    /\ UNCHANGED <<ran, delta_seconds, time_scale, particle_vars, other_vars,
                   history_vars, hash_grid, entities, instance, collider,
                   collides_with, hash_marker, changed, colliding,
                   marker_queue, colliding_queue>>

\* The scene of InitCollision with every entity Collidable from the start and
\* one grid size; entity 2 can opt out and in again.
InitOptOut ==
    /\ InitCollision
    /\ hash_grid = 2
    /\ collidable = entities
    /\ \A e \in entities : instance[e].scale = Vec2(1, 1)

NextOptOut ==
    \/ NextCollision
    \/ RemoveCollidable(2)

SpecOptOut == InitOptOut /\ [][NextOptOut]_vars

\* A static scene for the grid itself: a Collider<A> and a CollidesWith<A>
\* anywhere on a square of half-unit positions, no larger than a cell.
MaxCoord == 4
MaxGrid == 2

FinePositions == {Vec2(x, y) : x \in -MaxCoord..MaxCoord, y \in -MaxCoord..MaxCoord}

InitGrid ==
    /\ NoEmitter
    /\ NoRoundCall
    /\ NoInput
    /\ NoRender
    /\ stage = "idle"
    /\ ran = {}
    /\ hash_grid \in 1..MaxGrid
    /\ entities = {1, 2}
    /\ instance \in [entities ->
                        [position : FinePositions,
                         scale : {Vec2(1, 1), Vec2(hash_grid, hash_grid)}]]
    /\ collidable = entities
    /\ collider = <<{"A"}, {}>>
    /\ collides_with = <<{}, {"A"}>>
    /\ hash_marker = [e \in entities |-> NoMarker]
    /\ changed = entities
    /\ colliding = [e \in entities |-> [t \in Tags |-> NoColliding]]
    /\ marker_queue = [e \in entities |-> NoMarker]
    /\ colliding_queue = [e \in entities |-> [t \in Tags |-> NoCommand]]

NextGrid ==
    \/ BeginCollisionFrame
    \/ update_hash_marker
    \/ insert_hash_marker
    \/ \E t \in Tags : collisions(t)
    \/ ApplyPreUpdateCommands
    \/ NoMove

SpecGrid == InitGrid /\ [][NextGrid]_vars

\* round_to_nearest called on its own, as in tests::test_round_to_nearest:
\* on a coordinate i and on -i, for coordinates around zero, the
\* coordinates of the tests, and the ends of i32.
MaxTrunc == 6

RoundInputs ==
    {F32(n, s) : n \in 0..MaxTrunc, s \in {1}}
    \cup {F32(n, s) : n \in -MaxTrunc..0, s \in {-1}}
    \cup {F32(0, 0)}
    \cup {F32(250, 1), F32(249, 1), F32(-250, -1), F32(-249, -1)}
    \cup {F32(I32Max - 127, 1), F32(I32Max, 1), F32(I32Min, -1)}

RoundIncrements == {1, 2, 3, 100}

CallRoundToNearest(overflow_checks) ==
    /\ ~round_out.called
    /\ round_out' =
          [called |-> TRUE,
           of_i |-> round_to_nearest(round_x, round_g, overflow_checks),
           of_neg |-> round_to_nearest(Negated(round_x), round_g,
                                       overflow_checks)]
    /\ UNCHANGED <<round_x, round_g, neighbors_of, neighbors_out, input_vars, render_vars,
                   schedule_vars, particle_vars, history_vars, collision_vars>>

InitRound ==
    /\ NoEmitter
    /\ NoEntities
    /\ NoInput
    /\ NoRender
    /\ stage = "idle"
    /\ ran = {}
    /\ round_x \in RoundInputs
    /\ round_g \in RoundIncrements
    /\ round_out = NotCalled
    /\ neighbors_of = <<0, 0>>
    /\ neighbors_out = NoNeighborsCall

NextRound == \E overflow_checks \in BOOLEAN : CallRoundToNearest(overflow_checks)

SpecRound == InitRound /\ [][NextRound]_vars

\* get_with_neighbors called on its own, as in tests::test_neighbors: on the
\* cells around the origin, the cell of the test, and cells at the ends of
\* i32.
MaxCell == 2

NeighborCells ==
    {<<cx, cy>> : cx \in -MaxCell..MaxCell, cy \in -MaxCell..MaxCell}
    \cup {<<200, 0>>, <<I32Max, 0>>, <<0, I32Min>>, <<I32Max - 127, -300>>}

CallGetWithNeighbors(overflow_checks) ==
    /\ ~neighbors_out.called
    /\ neighbors_out' =
          IF overflow_checks /\ NeighborsOverflow(neighbors_of, round_g)
          THEN [called |-> TRUE, panic |-> TRUE, cells |-> <<>>]
          ELSE [called |-> TRUE, panic |-> FALSE,
                cells |-> get_with_neighbors(neighbors_of, round_g)]
    /\ UNCHANGED <<round_x, round_g, round_out, neighbors_of, input_vars, render_vars,
                   schedule_vars, particle_vars, history_vars, collision_vars>>

InitNeighbors ==
    /\ NoEmitter
    /\ NoEntities
    /\ NoInput
    /\ NoRender
    /\ stage = "idle"
    /\ ran = {}
    /\ round_x = [trunc |-> 0, sign |-> 0]
    /\ round_g \in RoundIncrements
    /\ round_out = NotCalled
    /\ neighbors_of \in NeighborCells
    /\ neighbors_out = NoNeighborsCall

NextNeighbors ==
    \E overflow_checks \in BOOLEAN : CallGetWithNeighbors(overflow_checks)

SpecNeighbors == InitNeighbors /\ [][NextNeighbors]_vars

----------------------------------------------------------------------------
(* Input, src/src/input.rs and State::input / State::update in state.rs *)

\* Keyboard::update and Mouse::update, lines 45-48 and 129-132
Keyboard_update_ClearAll(kb) == NoButtons

Keyboard_update(kb) ==
    [kb EXCEPT !.just_pressed = {}, !.just_released = {}]

Mouse_update(m) ==
    [m EXCEPT !.just_pressed = {}, !.just_released = {}]

\* Keyboard::pressed, lines 53-56, and Keyboard::released, lines 61-64
Keyboard_pressed(kb, key) ==
    [kb EXCEPT !.just_pressed = @ \cup {key},
               !.currently_pressed = @ \cup {key}]

Keyboard_released(kb, key) ==
    [kb EXCEPT !.currently_pressed = @ \ {key},
               !.just_released = @ \cup {key}]

\* Keyboard::is_down, just_down, just_up (Mouse has the same three)
is_down(kb, key) == key \in kb.currently_pressed
just_down(kb, key) == key \in kb.just_pressed
just_up(kb, key) == key \in kb.just_released

\* winit's MouseButton: Left, Right, Middle, Other(n)
Button(kind, n) == [kind |-> kind, n |-> n]
Left == Button("Left", 0)
Right == Button("Right", 0)
Other(n) == Button("Other", n)

\* matches!(button, MouseButton::Other(_))
IsOther(button) == button.kind = "Other"

\* Mouse::pressed, lines 137-140
Mouse_pressed(m, key) ==
    [m EXCEPT !.just_pressed = @ \cup {key},
              !.currently_pressed = @ \cup {key}]

Mouse_released_OneButton(m, key) ==
    [m EXCEPT !.currently_pressed = @ \ {key},
              !.just_released = @ \cup {key}]

\* Mouse::released, lines 145-168
Mouse_released(m, key) ==
    IF ~IsOther(key)
    THEN [m EXCEPT !.currently_pressed = @ \ {key},
                   !.just_released = @ \cup {key}]
    ELSE LET to_release == {button \in m.currently_pressed : IsOther(button)}
         IN  [m EXCEPT !.just_released = @ \cup to_release,
                       !.currently_pressed = @ \ to_release]

\* The keys and buttons of the events
Keys == {"Space", "Return"}
\* (Middle shares the match arm of Left and Right)
MouseButtons == {Left, Right, Other(63), Other(64)}
\* a release of an Other button need not carry the code of its press
ReleasedButtons == MouseButtons \cup {Other(0)}

\* State::input on a KeyboardInput event with a key code, lines 497-508.
\* The event loop handles window events between two redraws.
KeyPressed(key) ==
    /\ stage = "idle"
    /\ keyboard' = Keyboard_pressed(keyboard, key)
    /\ key_events' = [key_events EXCEPT !.pressed = @ \cup {key},
                                        !.held = @ \cup {key}]
    /\ UNCHANGED <<world_keyboard, mouse, world_mouse, frame_key_events,
                   render_vars, round_vars, schedule_vars, particle_vars, history_vars,
                   collision_vars>>

KeyReleased(key) ==
    /\ stage = "idle"
    /\ keyboard' = Keyboard_released(keyboard, key)
    /\ key_events' = [key_events EXCEPT !.released = @ \cup {key},
                                        !.held = @ \ {key}]
    /\ UNCHANGED <<world_keyboard, mouse, world_mouse, frame_key_events,
                   render_vars, round_vars, schedule_vars, particle_vars, history_vars,
                   collision_vars>>

\* State::input on a MouseInput event, lines 509-512
MousePressed(button) ==
    /\ stage = "idle"
    /\ mouse' = Mouse_pressed(mouse, button)
    /\ UNCHANGED <<keyboard, world_keyboard, world_mouse, key_events,
                   frame_key_events, render_vars, round_vars, schedule_vars, particle_vars,
                   history_vars, collision_vars>>

MouseReleased(button) ==
    /\ stage = "idle"
    /\ mouse' = Mouse_released(mouse, button)
    /\ UNCHANGED <<keyboard, world_keyboard, world_mouse, key_events,
                   frame_key_events, render_vars, round_vars, schedule_vars, particle_vars,
                   history_vars, collision_vars>>

\* State::update, lines 519-527: the world's Keyboard and Mouse become copies
\* of the collected ones, whose just_* sets are then cleared.  The schedule
\* then runs on a world without emitters and spatial entities.
State_update ==
    /\ stage = "idle"
    /\ world_keyboard' = keyboard
    /\ keyboard' = Keyboard_update(keyboard)
    /\ world_mouse' = mouse
    /\ mouse' = Mouse_update(mouse)
    /\ frame_key_events' = key_events
    /\ key_events' = [key_events EXCEPT !.pressed = {}, !.released = {}]
    /\ UNCHANGED <<render_vars, round_vars, schedule_vars, particle_vars, history_vars,
                   collision_vars>>

\* State::new: no emitter, no entity, no event yet
InitInput ==
    /\ NoEmitter
    /\ NoEntities
    /\ NoRoundCall
    /\ NoInput
    /\ NoRender
    /\ stage = "idle"
    /\ ran = {}

NextKeyboard ==
    \/ \E key \in Keys : KeyPressed(key)
    \/ \E key \in Keys : KeyReleased(key)
    \/ State_update

SpecKeyboard == InitInput /\ [][NextKeyboard]_vars

NextMouse ==
    \/ \E button \in MouseButtons : MousePressed(button)
    \/ \E button \in ReleasedButtons : MouseReleased(button)
    \/ State_update

SpecMouse == InitInput /\ [][NextMouse]_vars

----------------------------------------------------------------------------
(* Properties of the particle simulation *)

FrameDone == stage = "idle"

LiveParticles == BagCardinality(particles)

RECURSIVE BurstSum(_)
BurstSum(k) ==
    IF k = 0 THEN 0 ELSE particle_system.bursts[k].count + BurstSum(k - 1)

\* C1: after every frame the emitter's ParticleCount is in [0, max_particles],
\* also in frames in which a burst fires.
C1_CountWithinMax ==
    (FrameDone /\ emitter_alive) =>
        (particle_count >= 0 /\ particle_count <= particle_system.max_particles)

\* C2: at the end of every frame ParticleCount equals its value at the start
\* of the frame plus the particle entities spawned for the emitter in the
\* frame minus the emitter's particles destroyed in the frame.
C2_CountConservation ==
    (FrameDone /\ emitter_alive) =>
        particle_count =
            count_at_frame_start + spawned_this_frame - destroyed_this_frame

C2_Witness ==
    /\ FrameDone
    /\ emitter_alive
    /\ spawned_this_frame > 0
    /\ destroyed_this_frame > 0
    /\ count_at_frame_start > 0

\* the hypotheses of C3: rate 0, no particle expired, room for every burst,
\* the emitter playing
BurstOnly ==
    /\ emitter_alive
    /\ playing
    /\ particle_system.spawn_rate_per_second = Constant(0)
    /\ ~destroyed_ever
    /\ particle_system.max_particles >= BurstSum(Len(particle_system.bursts))

\* C3 as claimed: under BurstOnly, right after the frame in which
\* running_time first reaches burst k's offset the live particles number the
\* sum of the counts of bursts 0..k.
C3_BurstExactness ==
    (FrameDone /\ BurstOnly) =>
        \A k \in newly_reached : LiveParticles = BurstSum(k)

\* C3 amended: the same, provided every frame so far has first reached at
\* most one burst offset and running_time has not yet reached
\* system_duration_seconds.
C3_BurstExactnessOnePerFrame ==
    (FrameDone /\ BurstOnly /\ ~several_reached /\ ~wrapped_or_finished) =>
        \A k \in newly_reached : LiveParticles = BurstSum(k)

C3_Witness ==
    /\ FrameDone
    /\ BurstOnly
    /\ ~several_reached
    /\ ~wrapped_or_finished
    /\ newly_reached = {2}
    /\ LiveParticles = 2

C5_DestroyedOnFirstFrame ==
    \A p \in DOMAIN particles :
        p.max_distance = NoDistance =>
            /\ FrameDone => p.lifetime < p.max_lifetime
            /\ p.despawning => p.lifetime >= p.max_lifetime

----------------------------------------------------------------------------
(* Properties of the collision grid *)

Listed(e, t) == {colliding[e][t].list[i] : i \in 1..Len(colliding[e][t].list)}

\* C6: collision channels are isolated: every entity listed in a
\* Colliding<T> carries CollidesWith<T>, so an entity that carries only the
\* other tag's CollidesWith is never listed, even at the collider's position.
C6_TagIsolation ==
    \A e \in entities : \A t \in Tags :
        colliding[e][t].present =>
            \A o \in Listed(e, t) : t \in collides_with[o]

\* a CollidesWith<B>-only entity sits exactly on a Collider<A> entity that
\* has a Colliding<A>
C6_Witness ==
    /\ stage = "update"
    /\ entities = {1, 2, 3}
    /\ instance[3].position = instance[1].position
    /\ hash_marker[3] = hash_marker[1]
    /\ hash_marker[1] # NoMarker
    /\ colliding[1]["A"].present

\* the cells equal to c's or among its 8 neighbors
NearCell(a, b, g) ==
    /\ Abs(a[1] - b[1]) \in {0, g}
    /\ Abs(a[2] - b[2]) \in {0, g}

\* the CollidesWith<T> entities found around collider c that overlap it
OverlappingNear(t, c) ==
    {e \in entities :
        /\ t \in collides_with[e]
        /\ hash_marker[e] # NoMarker
        /\ NearCell(hash_marker[c], hash_marker[e], hash_grid)
        /\ overlapping(instance[c], instance[e])}

\* C7: when the commands of a collisions<T> pass are applied, every
\* Collider<T> entity that carries a grid cell ends with Colliding<T> if and
\* only if some CollidesWith<T> entity of its cell or its 8 neighbor cells
\* overlaps it; the list is then non-empty and holds exactly those entities,
\* whatever Colliding<T> the entity carried before.
C7_CollidingIffOverlap ==
    [][ApplyPreUpdateCommands =>
        \A t \in Tags : \A c \in entities :
            (t \in collider[c] /\ hash_marker[c] # NoMarker) =>
                /\ colliding'[c][t].present <=> (OverlappingNear(t, c) # {})
                /\ colliding'[c][t].present =>
                      /\ colliding'[c][t].list # <<>>
                      /\ {colliding'[c][t].list[i] :
                             i \in 1..Len(colliding'[c][t].list)}
                           = OverlappingNear(t, c)]_vars

\* a collider that lists two overlapping entities, next to a collider whose
\* pass found nothing
C7_Witness ==
    /\ stage = "update"
    /\ Len(colliding[1]["A"].list) = 2
    /\ hash_marker[2] # NoMarker
    /\ ~colliding[2]["B"].present

FitsGrid == \A e \in entities :
    instance[e].scale.x <= hash_grid /\ instance[e].scale.y <= hash_grid

\* the cell an entity carries is the rounding of its position
CurrentCell(e) ==
    hash_marker[e] = current_hash_grid(instance[e].position, hash_grid)

\* C9: if grid_size is at least the width and height of every entity, then
\* for a Collider<T> c and a CollidesWith<T> e whose cells are the rounding
\* of their positions, overlapping(c, e) implies that their cells are equal
\* or 8-neighbors, and e is listed in c's Colliding<T> once the commands of
\* the pass are applied.
C9_NoOverlapMissed ==
    [][(ApplyPreUpdateCommands /\ FitsGrid) =>
        \A t \in Tags : \A c \in entities : \A e \in entities :
            (/\ t \in collider[c]
             /\ t \in collides_with[e]
             /\ CurrentCell(c)
             /\ CurrentCell(e)
             /\ overlapping(instance[c], instance[e])) =>
                /\ NearCell(hash_marker[c], hash_marker[e], hash_grid)
                /\ colliding'[c][t].present
                /\ \E i \in 1..Len(colliding'[c][t].list) :
                      colliding'[c][t].list[i] = e]_vars

\* an overlap across a cell corner, found
C9_Witness ==
    /\ stage = "update"
    /\ entities = {1, 2}
    /\ FitsGrid
    /\ CurrentCell(1) /\ CurrentCell(2)
    /\ hash_marker[1][1] # hash_marker[2][1]
    /\ hash_marker[1][2] # hash_marker[2][2]
    /\ overlapping(instance[1], instance[2])
    /\ 2 \in Listed(1, "A")

\* C10: in every frame both bucket-assignment systems have completed before
\* any collisions<T> system starts.
C10_BucketsBeforeCollisions ==
    \A t \in Tags :
        CollisionsSystem[t] \in ran =>
            {"update_hash_marker", "insert_hash_marker"} \subseteq ran

\* a collisions<T> system has run while the other has not yet
C10_Witness ==
    /\ stage = "pre_update"
    /\ "collisions_A" \in ran
    /\ "collisions_B" \notin ran

\* the entities a Colliding<T> lists after the step
ListedNext(e, t) ==
    {colliding'[e][t].list[i] : i \in 1..Len(colliding'[e][t].list)}

\* C11: an entity without a grid cell gets one only when the commands of a
\* pre_update stage are applied (the cell insert_hash_marker queued); in
\* that frame it is neither given Colliding<T> nor listed in another
\* entity's Colliding<T>; it keeps the cell, and in every later frame it
\* takes part in collisions<T>, as collider and as collided-with.
C11_OneFrameLatency ==
    [][\A e \in entities :
        /\ (hash_marker[e] = NoMarker /\ hash_marker'[e] # NoMarker) =>
              /\ ApplyPreUpdateCommands
              /\ e \in collidable
              /\ hash_marker'[e] = marker_queue[e]
        /\ (ApplyPreUpdateCommands /\ hash_marker[e] = NoMarker) =>
              \A t \in Tags :
                 /\ ~colliding'[e][t].present
                 /\ \A o \in entities : e \notin ListedNext(o, t)
        /\ hash_marker[e] # NoMarker => hash_marker'[e] # NoMarker
        /\ (ApplyPreUpdateCommands /\ hash_marker[e] # NoMarker) =>
              \A t \in Tags :
                 /\ (t \in collider[e] /\ OverlappingNear(t, e) # {}) =>
                       colliding'[e][t].present
                 /\ \A c \in entities :
                       (/\ t \in collider[c]
                        /\ hash_marker[c] # NoMarker
                        /\ e \in OverlappingNear(t, c)) =>
                           e \in ListedNext(c, t)]_vars

\* entity 2 has just received its cell: it overlaps collider 1, which has a
\* Colliding<A> that does not list it, and it overlaps entity 3 without
\* having a Colliding<B> itself
C11_Witness ==
    /\ stage = "update"
    /\ hash_marker[2] # NoMarker
    /\ colliding[1]["A"].present
    /\ 2 \notin Listed(1, "A")
    /\ hash_marker[3] # NoMarker
    /\ NearCell(hash_marker[1], hash_marker[2], hash_grid)
    /\ overlapping(instance[1], instance[2])
    /\ NearCell(hash_marker[2], hash_marker[3], hash_grid)
    /\ overlapping(instance[2], instance[3])
    /\ ~colliding[2]["B"].present

\* C12: the Colliding<T> an entity carries during the update stage of a
\* frame is the overlap result for the positions held at the start of that
\* frame (the pre_update stage writes no position); a write to a position
\* happens in the update stage and changes no Colliding<T> and no grid cell:
\* these change in a pre_update stage only.
C12_StartOfFramePositions ==
    /\ [](stage = "update" =>
            \A c \in entities : \A t \in Tags :
                colliding[c][t].present =>
                    \A e \in Listed(c, t) :
                        /\ overlapping(instance[c], instance[e])
                        /\ CurrentCell(c)
                        /\ CurrentCell(e))
    /\ [][/\ stage = "pre_update" => instance' = instance
          /\ instance' # instance =>
                (stage = "update" /\ UNCHANGED <<colliding, hash_marker>>)
          /\ colliding' # colliding => ApplyPreUpdateCommands
          /\ hash_marker' # hash_marker => stage = "pre_update"]_vars

\* after a move in the update stage: collider 1 still lists entity 2, which
\* it no longer overlaps, and entity 2 still carries the cell it left
C12_Witness ==
    /\ stage = "idle"
    /\ colliding[1]["A"].present
    /\ 2 \in Listed(1, "A")
    /\ ~overlapping(instance[1], instance[2])
    /\ ~CurrentCell(2)

\* a = -b, for i32 values (the sum is formed only for opposite signs)
Opposite(a, b) ==
    \/ a = 0 /\ b = 0
    \/ a > 0 /\ b < 0 /\ a + b = 0
    \/ a < 0 /\ b > 0 /\ a + b = 0

\* C13: for every input x and positive g, round_to_nearest(x, g) is an
\* integer multiple of g and round_to_nearest(-x, g) = -round_to_nearest(x, g);
\* round_to_nearest(250.0, 100) = 300, round_to_nearest(249.9, 100) = 200,
\* round_to_nearest(-250.0, 100) = -300.
C13_MultipleAndOdd ==
    /\ round_out.called =>
          /\ ~round_out.of_i.panic
          /\ ~round_out.of_neg.panic
          /\ round_out.of_i.value % round_g = 0
          /\ Opposite(round_out.of_neg.value, round_out.of_i.value)
    /\ (round_out.called /\ round_g = 100) =>
          /\ round_x = F32(250, 1) => round_out.of_i.value = 300
          /\ round_x = F32(249, 1) => round_out.of_i.value = 200
          /\ round_x = F32(-250, -1) => round_out.of_i.value = -300

\* c is the multiple of g nearest to the coordinate of p half units, a
\* coordinate halfway between two multiples going away from zero
NearestMultiple(p, g, c) ==
    /\ c % g = 0
    /\ (2 * c - p <= g /\ p - 2 * c <= g)
    /\ (2 * c - p = g \/ p - 2 * c = g) =>
          (IF c < 0 THEN -c ELSE c) * 2 > (IF p < 0 THEN -p ELSE p)

\* C14: for every position coordinate x and every positive grid_size g, even
\* or odd, 1 included, the grid cell coordinate round_to_nearest(x, g) is the
\* multiple of g nearest to x, halfway coordinates rounded away from zero.
C14_NearestMultiple ==
    \A e \in entities :
        hash_marker[e] # NoMarker =>
            /\ NearestMultiple(instance[e].position.x, hash_grid,
                               hash_marker[e][1])
            /\ NearestMultiple(instance[e].position.y, hash_grid,
                               hash_marker[e][2])

\* the nine cells (cx + i*g, cy + j*g), i, j in {-1, 0, 1}
NineCells(cell, g) ==
    {<<cell[1] + i * g, cell[2] + j * g>> : i \in {-1, 0, 1}, j \in {-1, 0, 1}}

\* C15: for any cell (cx, cy) and grid_size g > 0, get_with_neighbors returns
\* exactly 9 pairwise distinct coordinates, the set
\* {(cx + i*g, cy + j*g) : i, j in {-1, 0, 1}} (which are i32 values).
C15_NineNeighbors ==
    neighbors_out.called =>
        /\ ~neighbors_out.panic
        /\ Len(neighbors_out.cells) = 9
        /\ \A i \in 1..9 : \A j \in 1..9 :
              i # j => neighbors_out.cells[i] # neighbors_out.cells[j]
        /\ ~NeighborsOverflow(neighbors_of, round_g)
        /\ {neighbors_out.cells[i] : i \in 1..9}
             = NineCells(neighbors_of, round_g)

\* C16: the bounding-box overlap test is symmetric: overlapping(a, b) =
\* overlapping(b, a) for every pair of entities.
C16_OverlappingSymmetric ==
    \A a \in entities : \A b \in entities :
        overlapping(instance[a], instance[b])
            <=> overlapping(instance[b], instance[a])

\* two entities of different sizes at different places, found overlapping
C16_Witness ==
    /\ stage = "update"
    /\ entities = {1, 2}
    /\ instance[1].scale # instance[2].scale
    /\ instance[1].position.x # instance[2].position.x
    /\ instance[1].position.y # instance[2].position.y
    /\ 2 \in Listed(1, "A")
    /\ overlapping(instance[2], instance[1])

\* a's box ends where b's begins, on the x axis and on the y axis
TouchX(a, b) == a.position.x + a.scale.x = b.position.x - b.scale.x
TouchY(a, b) == a.position.y + a.scale.y = b.position.y - b.scale.y

\* the extents of a and b intersect on the x axis, on the y axis
ExtentsMeetX(a, b) ==
    /\ a.position.x - a.scale.x < b.position.x + b.scale.x
    /\ a.position.x + a.scale.x > b.position.x - b.scale.x
ExtentsMeetY(a, b) ==
    /\ a.position.y - a.scale.y < b.position.y + b.scale.y
    /\ a.position.y + a.scale.y > b.position.y - b.scale.y

ShiftX(a, d) == [a EXCEPT !.position.x = @ + d]
ShiftY(a, d) == [a EXCEPT !.position.y = @ + d]

\* a moved towards b along x by every amount in 1..most makes them overlap,
\* and so does b moved towards a; a is on the lower side of b
TowardsX(a, b, most) ==
    \A d \in 1..most : overlapping(ShiftX(a, d), b) /\ overlapping(a, ShiftX(b, -d))
TowardsY(a, b, most) ==
    \A d \in 1..most : overlapping(ShiftY(a, d), b) /\ overlapping(a, ShiftY(b, -d))

\* the widths of a and b on an axis, added (scales are whole units,
\* positions half units)
WidthsX(a, b) == 2 * (a.scale.x + b.scale.x)
WidthsY(a, b) == 2 * (a.scale.y + b.scale.y)

\* C17 (as stated): two entities whose boxes touch exactly at an edge are
\* not overlapping; moving either one towards the other by any positive
\* amount, their extents intersecting on the other axis, makes overlapping
\* true.
C17_TouchingEdgesAnyAmount ==
    \A ea \in entities : \A eb \in entities \ {ea} :
        LET a == instance[ea]
            b == instance[eb]
        IN  /\ TouchX(a, b) =>
                 /\ ~overlapping(a, b)
                 /\ ExtentsMeetY(a, b) => TowardsX(a, b, WidthsX(a, b))
            /\ TouchY(a, b) =>
                 /\ ~overlapping(a, b)
                 /\ ExtentsMeetX(a, b) => TowardsY(a, b, WidthsY(a, b))

\* C17 (amended): two entities whose boxes touch exactly at an edge are not
\* overlapping; moving either one towards the other by a positive amount
\* smaller than the sum of their widths on that axis, their extents
\* intersecting on the other axis, makes overlapping true.
C17_TouchingEdges ==
    \A ea \in entities : \A eb \in entities \ {ea} :
        LET a == instance[ea]
            b == instance[eb]
        IN  /\ TouchX(a, b) =>
                 /\ ~overlapping(a, b)
                 /\ ExtentsMeetY(a, b) => TowardsX(a, b, WidthsX(a, b) - 1)
            /\ TouchY(a, b) =>
                 /\ ~overlapping(a, b)
                 /\ ExtentsMeetX(a, b) => TowardsY(a, b, WidthsY(a, b) - 1)

\* the collider touches the other entity at its right edge, side by side,
\* and has not been given a Colliding<A>
C17_Witness ==
    /\ stage = "update"
    /\ entities = {1, 2}
    /\ CurrentCell(1) /\ CurrentCell(2)
    /\ TouchX(instance[1], instance[2])
    /\ ExtentsMeetY(instance[1], instance[2])
    /\ ~colliding[1]["A"].present

\* C18: within every frame the particle systems run in the order
\* particle_spawner, particle_lifetime, particle_transform, particle_cleanup:
\* none of them has run before the one that precedes it.
C18_ParticleSystemOrder ==
    /\ "particle_lifetime" \in ran => "particle_spawner" \in ran
    /\ "particle_transform" \in ran => "particle_lifetime" \in ran
    /\ "particle_cleanup" \in ran => "particle_transform" \in ran

\* the emitter is in the store without the Playing marker
Paused == emitter_alive /\ ~playing

\* C19: for an emitter without the Playing marker, a frame leaves its
\* RunningState, its BurstIndex and its emitter entity unchanged and spawns
\* no particle for it, while its live particles continue to age and are
\* cleaned up, decrementing its ParticleCount, as for a Playing emitter.
C19_PausedEmitter ==
    /\ [][Paused =>
            /\ running_time' = running_time
            /\ current_second' = current_second
            /\ spawned_this_second' = spawned_this_second
            /\ burst_index' = burst_index
            /\ emitter_alive' = emitter_alive
            /\ emitter_cmd' = emitter_cmd
            /\ spawn_queue' = EmptyBag]_vars
    /\ [][(Paused /\ "particle_lifetime" \in ran' \ ran) =>
            particles' = BagMap(particles, Aged)]_vars
    /\ [][(Paused /\ "particle_cleanup" \in ran' \ ran) =>
            /\ particles' = BagMap(particles, MarkExpired)
            /\ particle_count' =
                  Max(particle_count
                        - BagCardinality(BagFilter(particles, Expired)), 0)]_vars
    /\ [][(Paused /\ stage = "update" /\ stage' = "idle") =>
            /\ spawned_this_frame' = 0
            /\ particle_count' = count_at_frame_start' - destroyed_this_frame'
            /\ particle_count' = BagCardinality(particles')]_vars

\* all systems of a frame have run on a paused emitter: one of its particles
\* is cleaned up and counted out, another has aged and stays
C19_Witness ==
    /\ stage = "update"
    /\ ran = UpdateSystems
    /\ Paused
    /\ running_time > 0
    /\ delta_seconds > 0
    /\ spawn_queue = EmptyBag
    /\ \E p \in DOMAIN particles : p.despawning
    /\ \E p \in DOMAIN particles : ~p.despawning /\ p.lifetime > 0
    /\ particle_count = count_at_frame_start - 1

\* this step is a run of particle_cleanup
CleanupStep == "particle_cleanup" \in ran' \ ran

\* C20: particle_cleanup never drives ParticleCount below 0: destroying a
\* particle whose parent's count is already 0 leaves the count at 0,
\* destroying a particle whose parent emitter no longer exists changes no
\* count, and in both cases the particle is despawned.
C20_SaturatingCleanup ==
    /\ [](particle_count >= 0)
    /\ [][(CleanupStep /\ emitter_alive /\ particle_count = 0) =>
            particle_count' = 0]_vars
    /\ [][(CleanupStep /\ ~emitter_alive) =>
            particle_count' = particle_count]_vars
    /\ [][CleanupStep =>
            /\ \A p \in DOMAIN particles :
                  Expired(p) => Despawning(p) \in DOMAIN particles'
            /\ \A q \in DOMAIN particles' : Expired(q) => q.despawning]_vars
    /\ [][(stage = "update" /\ stage' = "idle") =>
            /\ \A q \in DOMAIN particles' : ~q.despawning
            /\ BagCardinality(particles') =
                  BagCardinality(particles) + BagCardinality(spawn_queue)
                    - BagCardinality(BagFilter(particles, IsDespawning))]_vars

\* particle_cleanup has destroyed a particle of an emitter whose count was 0
\* when the frame began, and spawned nothing
C20_Witness ==
    /\ stage = "update"
    /\ ran = UpdateSystems
    /\ emitter_alive
    /\ count_at_frame_start = 0
    /\ particle_count = 0
    /\ spawn_queue = EmptyBag
    /\ \E p \in DOMAIN particles : p.despawning

\* particle_cleanup has destroyed a particle whose emitter is gone
C20_OrphanCleaned ==
    /\ stage = "update"
    /\ ran = UpdateSystems
    /\ ~emitter_alive
    /\ particle_count = count_at_frame_start
    /\ particle_count > 0
    /\ \E p \in DOMAIN particles : p.despawning

\* C21: the keyboard snapshot given to a frame's systems reports
\* just_down(k) exactly when a press event of k arrived since the previous
\* frame, just_up(k) exactly when a release event of k arrived since the
\* previous frame, and is_down(k) exactly when k was pressed and not released
\* since: in every frame from a press of k until the next release of k.
C21_KeyboardSnapshot ==
    \A k \in Keys :
        /\ just_down(world_keyboard, k) <=> k \in frame_key_events.pressed
        /\ just_up(world_keyboard, k) <=> k \in frame_key_events.released
        /\ is_down(world_keyboard, k) <=> k \in frame_key_events.held

\* a frame sees a key held since an earlier frame (neither just pressed nor
\* just released) while another key was pressed and released before it
C21_Witness ==
    \E k \in Keys : \E j \in Keys \ {k} :
        /\ is_down(world_keyboard, k)
        /\ ~just_down(world_keyboard, k)
        /\ ~just_up(world_keyboard, k)
        /\ just_down(world_keyboard, j)
        /\ just_up(world_keyboard, j)
        /\ ~is_down(world_keyboard, j)
        /\ keyboard = Keyboard_update(world_keyboard)

\* the Other(_) buttons of a set of buttons
Others(buttons) == {b \in buttons : IsOther(b)}

\* C22: Mouse::released(Other(n)), for any n, moves every currently pressed
\* Other(_) button into just_released and removes all of them from
\* currently_pressed, leaving pressed Left/Right/Middle buttons untouched;
\* Mouse::released of Left, Right or Middle affects only that one button.
C22_MouseReleased ==
    [][\A key \in ReleasedButtons :
          MouseReleased(key) =>
             /\ mouse'.just_pressed = mouse.just_pressed
             /\ IsOther(key) =>
                   /\ mouse'.just_released =
                         mouse.just_released \cup Others(mouse.currently_pressed)
                   /\ Others(mouse'.currently_pressed) = {}
                   /\ mouse'.currently_pressed \ Others(MouseButtons) =
                         mouse.currently_pressed \ Others(MouseButtons)
             /\ ~IsOther(key) =>
                   /\ mouse'.just_released = mouse.just_released \cup {key}
                   /\ mouse'.currently_pressed = mouse.currently_pressed \ {key}
      ]_vars

\* two Other buttons and Left were down in the last frame; since then one
\* release of an Other button has put both Other buttons into just_released
\* and left Left down
C22_Witness ==
    /\ world_mouse.currently_pressed = {Left, Other(63), Other(64)}
    /\ mouse.just_pressed = {}
    /\ mouse.just_released = {Other(63), Other(64)}
    /\ mouse.currently_pressed = {Left}

\* this step is a run of particle_spawner
SpawnerStep == "particle_spawner" \in ran' \ ran

\* the emitter the spawner works on has run its duration out and is empty
FinishedEmpty ==
    /\ ~particle_system.looping
    /\ running_time' >= particle_system.system_duration_seconds
    /\ particle_count = 0

\* C23: particle_spawner queues the despawn of an emitter or the removal of
\* its Playing marker only when the emitter is non-looping, running_time >=
\* system_duration_seconds and ParticleCount = 0; it then despawns the entity
\* if despawn_on_finish is set and otherwise only removes Playing (the entity
\* persists).  A looping emitter, or one with ParticleCount > 0, or one with
\* running_time < system_duration_seconds, is never despawned or paused.
C23_FinishOnlyWhenEmpty ==
    /\ [][(SpawnerStep /\ SpawnerMatches) =>
            /\ emitter_cmd' # "none" <=> FinishedEmpty
            /\ emitter_cmd' = "despawn" => particle_system.despawn_on_finish
            /\ emitter_cmd' = "remove_playing" =>
                  ~particle_system.despawn_on_finish]_vars
    /\ [][(SpawnerStep /\ ~SpawnerMatches) => emitter_cmd' = emitter_cmd]_vars
    /\ [][~SpawnerStep => (emitter_cmd' = emitter_cmd \/ emitter_cmd' = "none")]_vars
    /\ [][emitter_alive' # emitter_alive =>
            (emitter_cmd = "despawn" /\ ~emitter_alive')]_vars
    /\ [][playing' # playing =>
            (emitter_cmd # "none" /\ ~playing')]_vars
    /\ [][(stage = "update" /\ stage' = "idle"
             /\ emitter_cmd = "remove_playing") => emitter_alive']_vars

\* a one-shot emitter that had particles has run out and lost its Playing
\* marker; the entity is still there
C23_Witness ==
    /\ FrameDone
    /\ emitter_alive
    /\ ~playing
    /\ destroyed_ever
    /\ particle_count = 0
    /\ ~particle_system.looping
    /\ running_time >= particle_system.system_duration_seconds

\* this spawner step is on a looping emitter whose running_time reaches or
\* passes system_duration_seconds
WrapStep ==
    /\ SpawnerStep
    /\ SpawnerMatches
    /\ particle_system.looping
    /\ AdvancedTime >= particle_system.system_duration_seconds

\* particles queued by this step
QueuedInStep == BagCardinality(spawn_queue') - BagCardinality(spawn_queue)

\* what the wrap does to RunningState and BurstIndex: one duration is taken
\* off, and counter and index start again from 0 for this frame's spawns
WrapEffect ==
    /\ running_time' = AdvancedTime - particle_system.system_duration_seconds
    /\ current_second' = FloorSeconds(running_time')
    /\ burst_index' \in {0, 1}
    /\ burst_index' = 1 <=>
          /\ particle_count < particle_system.max_particles
          /\ particle_system.bursts # <<>>
          /\ particle_system.bursts[1].time <= running_time'
    /\ spawned_this_second' =
          QueuedInStep - (IF burst_index' = 1
                          THEN particle_system.bursts[1].count ELSE 0)

\* the bursts whose time offset is below the duration
BurstsBelowDuration ==
    {k \in 1..Len(particle_system.bursts) :
        particle_system.bursts[k].time < particle_system.system_duration_seconds}

\* C24 (as stated): for a looping emitter, in the frame where running_time
\* reaches or passes system_duration_seconds, running_time is reduced by
\* exactly system_duration_seconds, the per-second counter and BurstIndex are
\* reset to 0, and every burst whose offset is below the duration fires in
\* each loop cycle: when a cycle ends, BurstIndex has passed all of them.
C24_LoopFiresEveryBurst ==
    [][WrapStep =>
          /\ WrapEffect
          /\ burst_index >= Cardinality(BurstsBelowDuration)]_vars

\* C24 (amended): for a looping emitter, in the frame where running_time
\* reaches or passes system_duration_seconds, running_time is reduced by
\* exactly system_duration_seconds, the per-second counter and BurstIndex are
\* reset to 0, so that the burst list is consumed again from its first entry:
\* in that frame burst 0, and no other burst, fires if its offset is reached
\* and capacity is left.
C24_LoopRestartsBursts ==
    [][WrapStep => WrapEffect]_vars

\* the spawner has wrapped a looping emitter in this frame and fired burst 0
\* again, after particles of an earlier cycle were destroyed
C24_Witness ==
    /\ stage = "update"
    /\ "particle_spawner" \in ran
    /\ SpawnerMatches
    /\ particle_system.looping
    /\ running_time < delta_seconds * SpawnerTimeScale
    /\ burst_index = 1
    /\ spawn_queue # EmptyBag
    /\ destroyed_ever

\* this spawner step gets to the capacity check (the emitter has not run its
\* duration out, or loops) and finds ParticleCount >= max_particles
FullStep ==
    /\ SpawnerStep
    /\ SpawnerMatches
    /\ (particle_system.looping
          \/ AdvancedTime < particle_system.system_duration_seconds)
    /\ particle_count >= particle_system.max_particles

\* C25 (as stated): if ParticleCount >= max_particles when the spawner
\* reaches the capacity check, that frame spawns no particle for the emitter,
\* burst particles included, and leaves BurstIndex, the per-second counter
\* and ParticleCount unchanged.
C25_FullFrameChangesNothing ==
    [][FullStep =>
          /\ spawn_queue' = spawn_queue
          /\ particle_count' = particle_count
          /\ burst_index' = burst_index
          /\ spawned_this_second' = spawned_this_second]_vars

\* C25 (amended): if ParticleCount >= max_particles when the spawner reaches
\* the capacity check, that frame spawns no particle for the emitter, burst
\* particles included, and leaves ParticleCount unchanged and BurstIndex and
\* the per-second counter as the time advance of the frame left them: 0 after
\* a loop wrap (the counter also when a new second began), unchanged
\* otherwise; a burst whose time has been reached is not consumed.
C25_FullFrameSpawnsNothing ==
    [][FullStep =>
          LET wraps == particle_system.looping
                         /\ AdvancedTime >= particle_system.system_duration_seconds
          IN  /\ spawn_queue' = spawn_queue
              /\ particle_count' = particle_count
              /\ burst_index' = (IF wraps THEN 0 ELSE burst_index)
              /\ spawned_this_second' =
                    (IF wraps \/ NewSecond(AdvancedTime)
                     THEN 0 ELSE spawned_this_second)]_vars

\* the spawner has run on a full emitter: nothing is queued, the count is
\* what it was, and the burst whose time has come is still the next to fire
C25_Witness ==
    /\ stage = "update"
    /\ ran = {"particle_spawner"}
    /\ SpawnerMatches
    /\ delta_seconds > 0
    /\ particle_count >= particle_system.max_particles
    /\ spawn_queue = EmptyBag
    /\ emitter_cmd = "none"
    /\ burst_index < Len(particle_system.bursts)
    /\ particle_system.bursts[burst_index + 1].time <= running_time
    /\ running_time < particle_system.system_duration_seconds

\* this spawner step gets to the capacity check
CapacityCheckStep ==
    /\ SpawnerStep
    /\ SpawnerMatches
    /\ (particle_system.looping
          \/ AdvancedTime < particle_system.system_duration_seconds)

\* BurstIndex as the time advance of this step leaves it
IndexAtCheck ==
    IF particle_system.looping
         /\ AdvancedTime >= particle_system.system_duration_seconds
    THEN 0 ELSE burst_index

\* the burst that is next to fire has its time offset reached in this step
BurstDue ==
    /\ IndexAtCheck < Len(particle_system.bursts)
    /\ particle_system.bursts[IndexAtCheck + 1].time <= running_time'

DueCount == particle_system.bursts[IndexAtCheck + 1].count

\* C26 (as stated): when ParticleCount is already at max_particles before the
\* burst and the burst's time offset has been reached, the burst fires in
\* that frame and pushes ParticleCount above max_particles.
C26_BurstFiresAtCapacity ==
    [][(CapacityCheckStep /\ BurstDue
          /\ particle_count >= particle_system.max_particles) =>
            /\ burst_index' = IndexAtCheck + 1
            /\ particle_count' > particle_system.max_particles]_vars

\* C26 (amended): a burst is not clamped to the remaining capacity: when
\* ParticleCount is below max_particles at the capacity check and the
\* burst's time offset has been reached, the whole burst fires in that frame
\* on top of the throttled spawns, and ParticleCount goes above
\* max_particles whenever ParticleCount plus the burst's count exceeds it;
\* when ParticleCount is at max_particles already, the burst does not fire.
C26_BurstNotClamped ==
    /\ [][(CapacityCheckStep /\ BurstDue
             /\ particle_count < particle_system.max_particles) =>
               /\ burst_index' = IndexAtCheck + 1
               /\ QueuedInStep >= DueCount
               /\ QueuedInStep - DueCount
                     <= particle_system.max_particles - particle_count
               /\ particle_count' = particle_count + QueuedInStep
               /\ (particle_count + DueCount > particle_system.max_particles)
                     => particle_count' > particle_system.max_particles]_vars
    /\ [][(CapacityCheckStep /\ BurstDue
             /\ particle_count >= particle_system.max_particles) =>
               /\ burst_index' = IndexAtCheck
               /\ QueuedInStep = 0
               /\ particle_count' = particle_count]_vars

\* the spawner found the emitter below capacity and a burst has taken
\* ParticleCount above max_particles
C26_Witness ==
    /\ stage = "update"
    /\ ran = {"particle_spawner"}
    /\ SpawnerMatches
    /\ count_at_frame_start > 0
    /\ count_at_frame_start < particle_system.max_particles
    /\ particle_count > particle_system.max_particles
    /\ burst_index > 0

\* this spawner step gets past the capacity check, to the spawn computation
SpawnComputationStep ==
    /\ CapacityCheckStep
    /\ particle_count < particle_system.max_particles

\* the per-second counter as the time advance of this step leaves it: 0 when
\* a new integer second begins or the emitter wraps
CounterAtCheck ==
    IF NewSecond(AdvancedTime)
         \/ (particle_system.looping
               /\ AdvancedTime >= particle_system.system_duration_seconds)
    THEN 0 ELSE spawned_this_second

\* floor(fractional_second_progress * current_rate) - spawned_this_second,
\* clamped to [0, max_particles - ParticleCount]
ClampedWanted ==
    LET wanted == ((FractionalTicks(running_time')
                       * CurrentSpawnRate(running_time')) \div TicksPerSecond)
                    - CounterAtCheck
    IN  Max(0, Min(wanted, particle_system.max_particles - particle_count))

\* the non-burst particles this step queues
NonBurstInStep == QueuedInStep - (IF BurstDue THEN DueCount ELSE 0)

\* what C27 says of one spawner step, but for the bound on the counter
ThrottleAndCounter ==
    /\ SpawnComputationStep =>
          /\ ClampedWanted > 0 => NonBurstInStep = ClampedWanted
          /\ ClampedWanted = 0 => NonBurstInStep \in {0, 1}
          /\ spawned_this_second' = CounterAtCheck + NonBurstInStep
    /\ (SpawnerStep /\ SpawnerMatches /\ ~SpawnComputationStep) =>
          /\ QueuedInStep = 0
          /\ spawned_this_second' = CounterAtCheck
    /\ (~SpawnerStep \/ ~SpawnerMatches) =>
          spawned_this_second' = spawned_this_second

\* C27 (as stated): the number of non-burst particles spawned in a frame is
\* floor(fractional_second_progress * current_rate) - spawned_this_second
\* clamped to [0, max_particles - ParticleCount] (before the force-one rule);
\* between two resets the per-second counter grows by the non-burst
\* particles spawned and not by burst spawns, and it never exceeds
\* max(1, current rate).
C27_CounterWithinCurrentRate ==
    [][/\ ThrottleAndCounter
       /\ SpawnComputationStep =>
             spawned_this_second' <= Max(1, CurrentSpawnRate(running_time'))
      ]_vars

\* C27 (amended): the same, the counter never exceeding max(1, the largest
\* value of the rate curve): the rate sampled in a frame can be lower than
\* the one the particles already counted in this second were spawned at.
C27_CounterWithinLargestRate ==
    [][/\ ThrottleAndCounter
       /\ spawned_this_second' <=
             Max(1, Max(particle_system.spawn_rate_per_second.first,
                        particle_system.spawn_rate_per_second.second))
      ]_vars

\* the spawner has spawned two throttled particles and a burst in one frame:
\* the counter shows the two
C27_Witness ==
    /\ stage = "update"
    /\ "particle_spawner" \in ran
    /\ SpawnerMatches
    /\ spawned_this_second = 2
    /\ burst_index = 1
    /\ BagCardinality(spawn_queue) = 3
    /\ particle_count = 3

\* the throttled count of this step is 0 and one non-burst particle is
\* spawned all the same
ForcedInStep == ClampedWanted = 0 /\ NonBurstInStep = 1

\* C28: when the throttled spawn count computes to 0, exactly one non-burst
\* particle is forced if and only if nothing has been spawned yet in the
\* current second, the current spawn rate is positive and ParticleCount <
\* max_particles; hence a spawner step that reaches the spawn computation
\* with a positive rate leaves at least one particle spawned in the current
\* integer second of running time, and a step stopped by the capacity
\* check spawns nothing.
C28_ForceOne ==
    [][/\ (SpawnComputationStep /\ ClampedWanted = 0) =>
             /\ NonBurstInStep \in {0, 1}
             /\ ForcedInStep <=>
                   /\ CounterAtCheck = 0
                   /\ CurrentSpawnRate(running_time') > 0
                   /\ particle_count < particle_system.max_particles
       /\ (SpawnComputationStep /\ CurrentSpawnRate(running_time') > 0) =>
             spawned_this_second' >= 1
       /\ (CapacityCheckStep /\ ~SpawnComputationStep) => QueuedInStep = 0
      ]_vars

\* a rate of 1 per second, a frame in a later integer second: the spawner
\* has forced the one particle of this second, after the one of the first
C28_Witness ==
    /\ stage = "update"
    /\ "particle_spawner" \in ran
    /\ SpawnerMatches
    /\ particle_system.spawn_rate_per_second = Constant(1)
    /\ particle_system.bursts = <<>>
    /\ current_second >= 1
    /\ spawned_this_second = 1
    /\ BagCardinality(spawn_queue) = 1
    /\ running_time >= TicksPerSecond * current_second
    /\ particle_count = 2

\* the entries fired in the current loop cycle as the time advance of this
\* step leaves them
FiredAtCheck == IF WrapStep THEN {} ELSE fired

\* this spawner step fires the burst entry that is next in the list
FiresInStep == SpawnComputationStep /\ BurstDue

\* the spawner's previous run fired an entry, and the offset of the entry
\* after it had been reached by then
NextWasReached ==
    /\ SpawnerStep
    /\ SpawnerMatches
    /\ last_fired > 0
    /\ last_fired < Len(particle_system.bursts)
    /\ particle_system.bursts[last_fired + 1].time <= running_time

\* this spawner step fires the entry after the one its previous run fired
FiresNextInStep ==
    /\ burst_index' = last_fired + 1
    /\ last_fired + 1 \in fired' \ fired
    /\ QueuedInStep >= particle_system.bursts[last_fired + 1].count

\* what C29 says, but for the frame in which the second of two reached
\* bursts fires
BurstOrder ==
    /\ burst_index' <= Len(particle_system.bursts)
    /\ burst_index' <= burst_index + 1
    /\ burst_index' < burst_index => (WrapStep /\ burst_index' \in {0, 1})
    /\ fired' = 1..burst_index'
    /\ FiresInStep =>
          /\ burst_index' = IndexAtCheck + 1
          /\ IndexAtCheck + 1 \notin FiredAtCheck
          /\ fired' = FiredAtCheck \cup {IndexAtCheck + 1}
          /\ QueuedInStep - DueCount \in
                0..(particle_system.max_particles - particle_count)
    /\ (SpawnerStep /\ SpawnerMatches /\ ~FiresInStep) =>
          /\ burst_index' = IndexAtCheck
          /\ fired' = FiredAtCheck
          /\ QueuedInStep <= Max(0, particle_system.max_particles
                                       - particle_count)
    /\ (~SpawnerStep \/ ~SpawnerMatches) =>
          (burst_index' = burst_index /\ fired' = fired)

\* C29 (as stated): bursts are consumed strictly in list order and at most
\* one burst fires per emitter per frame: BurstIndex increases by at most 1
\* in a frame, never exceeds the length of the burst list, never decreases
\* except by the reset to 0 on loop, each burst entry fires at most once per
\* loop cycle, and two bursts whose offsets are both already reached fire in
\* two consecutive frames.
C29_ReachedBurstsConsecutive ==
    [][BurstOrder /\ (NextWasReached => FiresNextInStep)]_vars

\* C29 (amended): the same, the second of two reached bursts firing in the
\* next frame only if in that frame the emitter neither wraps nor finishes
\* and ParticleCount is below max_particles at the capacity check; else it
\* does not fire in that frame.
C29_ReachedBurstsOnePerFrame ==
    [][/\ BurstOrder
       /\ NextWasReached =>
             (FiresNextInStep <=> (SpawnComputationStep /\ ~WrapStep))
      ]_vars

\* bursts [(1, 2), (1, 1)]: the first fired in the frame that reached tick 1,
\* the second in the next frame, at tick 2
C29_Witness ==
    /\ stage = "update"
    /\ "particle_spawner" \in ran
    /\ SpawnerMatches
    /\ Len(particle_system.bursts) = 2
    /\ particle_system.bursts[1].time = particle_system.bursts[2].time
    /\ running_time = particle_system.bursts[2].time + 1
    /\ delta_seconds = 1
    /\ last_fired = 2
    /\ fired = {1, 2}
    /\ burst_index = 2

\* this step is a run of some collisions<T>
CollisionsStep == \E t \in Tags : CollisionsSystem[t] \in ran' \ ran

\* this step is the run of update_hash_marker
UpdateMarkerStep == "update_hash_marker" \in ran' \ ran

\* the cell of e is the bucket of its current position
CellCurrent(e) ==
    hash_marker[e] = current_hash_grid(instance[e].position, hash_grid)

C31_OptedOutTakesNoPart ==
    \A e \in entities \ collidable : \A t \in Tags :
        /\ colliding_queue[e][t].op # "insert"
        /\ \A c \in entities :
              \A i \in 1..Len(colliding_queue[c][t].list) :
                 colliding_queue[c][t].list[i] # e

\* the time scale C32 states: the global value when the emitter has
\* use_scaled_time set and the resource is present, 1 otherwise
StatedScale ==
    IF particle_system.use_scaled_time /\ time_scale # NoScale
    THEN time_scale ELSE 1

AgedAtStatedScale(p) ==
    [p EXCEPT !.lifetime = @ + delta_seconds * StatedScale]

MovedAtStatedScale(p) ==
    [p EXCEPT !.distance = @ + particle_system.initial_velocity
                                 * delta_seconds * StatedScale]

LifetimeStep == "particle_lifetime" \in ran' \ ran

TransformStep == "particle_transform" \in ran' \ ran

\* C32: running_time advances by delta * scale in the spawner (less the
\* duration on a wrap), Lifetime by delta * scale in particle_lifetime and
\* the position by velocity * delta * scale in particle_transform, the scale
\* being the global time-scale value when the emitter has use_scaled_time
\* set and the resource is present and exactly 1 otherwise; for an emitter
\* with use_scaled_time = false the three factors are 1 for every value of
\* the resource, so the emitter and particle state does not depend on it.
C32_TimeScaleApplied ==
    [][/\ (SpawnerStep /\ SpawnerMatches) =>
             LET rt == running_time + delta_seconds * StatedScale
             IN  running_time' =
                    IF particle_system.looping
                         /\ rt >= particle_system.system_duration_seconds
                    THEN rt - particle_system.system_duration_seconds
                    ELSE rt
       /\ LifetimeStep => particles' = BagMap(particles, AgedAtStatedScale)
       /\ (TransformStep /\ emitter_alive) =>
             particles' = BagMap(particles, MovedAtStatedScale)
       /\ ~particle_system.use_scaled_time =>
             /\ SpawnerTimeScale = 1
             /\ emitter_alive => (LifetimeTimeScale = 1 /\ TransformTimeScale = 1)
      ]_vars

\* use_scaled_time = false with a TimeScale of 2: after two frames of one
\* tick running_time is 2 and a particle of the first frame has aged and
\* moved by one tick
C32_Witness ==
    /\ ~particle_system.use_scaled_time
    /\ time_scale = 2
    /\ stage = "update"
    /\ ran = UpdateSystems
    /\ delta_seconds = 1
    /\ running_time = 2
    /\ \E p \in DOMAIN particles : p.lifetime = 1 /\ p.distance = 1

\* the condition C33 states for the destruction of particle p
StatedExpired(p) ==
    \/ p.lifetime >= p.max_lifetime
    \/ (p.max_distance # NoDistance /\ p.distance >= p.max_distance)

\* the number of copies of particle p in bag B
Copies(B, p) == IF p \in DOMAIN B THEN B[p] ELSE 0

\* C33: particle_cleanup destroys a particle in a frame if and only if
\* Lifetime >= max_lifetime or (max_distance is set and DistanceTraveled >=
\* max_distance): in a run of particle_cleanup exactly the particles that
\* satisfy the condition get the despawn command, and the commands applied at
\* the end of the stage leave exactly the others.
C33_CleanupCondition ==
    [][/\ CleanupStep =>
             \A p \in DOMAIN particles :
                IF StatedExpired(p)
                THEN /\ p \notin DOMAIN particles'
                     /\ Copies(particles', Despawning(p)) = particles[p]
                ELSE /\ ~p.despawning
                     /\ Copies(particles', p) = particles[p]
       /\ (stage = "update" /\ stage' = "idle") =>
             \A p \in DOMAIN particles :
                /\ p.despawning => p \notin DOMAIN particles'
                /\ ~p.despawning => Copies(particles', p) >= particles[p]
      ]_vars

\* particle_cleanup has run after particle_transform and before
\* particle_lifetime: a particle is despawning at its max_distance with its
\* Lifetime below max_lifetime, while one without max_distance would stay
C33_Witness ==
    /\ stage = "update"
    /\ "particle_cleanup" \in ran
    /\ \E p \in DOMAIN particles :
          /\ p.despawning
          /\ p.lifetime < p.max_lifetime
          /\ p.max_distance # NoDistance
          /\ p.distance >= p.max_distance

\* C34: whenever the spawner samples spawn_rate_per_second, the system life
\* percentage pct = running_time / system_duration_seconds satisfies
\* 0 <= pct < 1, for looping and non-looping emitters and any non-negative
\* frame delta.
C34_PctInUnitRange ==
    [][SpawnComputationStep =>
          /\ 0 <= running_time'
          /\ running_time' < particle_system.system_duration_seconds
      ]_vars

\* a particle as it is spawned: not aged, not moved, not marked for despawn
Fresh(p) == p.lifetime = 0 /\ p.distance = 0 /\ ~p.despawning

\* this step ends the update stage: the stage's commands are applied
StageEndStep == stage = "update" /\ stage' = "idle"

\* C35: a particle spawned by particle_spawner in a frame is not aged, moved
\* or cleaned up during that frame under any execution order of the particle
\* systems, the spawn being a command applied at the end of the stage: the
\* spawned particles wait in the command queue with Lifetime = 0 and
\* DistanceTraveled = 0, no other system touches the queue, and at the end
\* of the frame they all exist, still at zero.
C35_SpawnedParticlesUntouched ==
    [][/\ \A q \in DOMAIN spawn_queue' : Fresh(q)
       /\ (LifetimeStep \/ TransformStep \/ CleanupStep) =>
             spawn_queue' = spawn_queue
       /\ SpawnerStep =>
             \A q \in DOMAIN spawn_queue :
                Copies(spawn_queue', q) >= spawn_queue[q]
       /\ StageEndStep =>
             /\ \A q \in DOMAIN spawn_queue :
                   Copies(particles', q) >= spawn_queue[q]
             /\ BagCardinality(BagFilter(particles', Fresh))
                  >= BagCardinality(spawn_queue)
      ]_vars

\* the end of a frame in which the spawner ran first: the particles of this
\* frame are at zero next to an older one that was aged in the same frame
C35_Witness ==
    /\ stage = "idle"
    /\ delta_seconds > 0
    /\ spawned_this_frame > 0
    /\ \E p \in DOMAIN particles : Fresh(p)
    /\ \E p \in DOMAIN particles : p.lifetime > 0 /\ p.distance > 0
    /\ BagCardinality(BagFilter(particles, Fresh)) = spawned_this_frame

\* C36: no particle is orphaned by the spawner: under any execution order
\* of particle_spawner and particle_cleanup within a frame, at the end of a
\* stage in which particle_spawner has queued the despawn of the emitter, or
\* the removal of its Playing marker on finish, no live particle has that
\* emitter as its parent; while the command waits, every particle of the
\* emitter is one that particle_cleanup despawns in the same stage, and
\* none is queued for spawning.
C36_NoOrphanOnFinish ==
    [][/\ emitter_cmd' # "none" =>
             /\ \A p \in DOMAIN particles' : p.despawning
             /\ spawn_queue' = EmptyBag
             /\ particle_count' = 0
       /\ (StageEndStep /\ emitter_cmd # "none") =>
             /\ particles' = EmptyBag
             /\ (~emitter_alive' \/ ~playing')
      ]_vars

\* the end of a frame in which particle_cleanup destroyed the last particle
\* and particle_spawner, run after it, despawned the finished emitter
C36_Witness ==
    /\ stage = "idle"
    /\ ~emitter_alive
    /\ destroyed_this_frame > 0
    /\ particles = EmptyBag
    /\ particle_count = 0

\* e carries Collider<T> and CollidesWith<T> for T = t, has a grid cell
\* and has positive width and height
SelfCollider(e, t) ==
    /\ t \in collider[e]
    /\ t \in collides_with[e]
    /\ hash_marker[e] # NoMarker
    /\ instance[e].scale.x > 0
    /\ instance[e].scale.y > 0

\* C37: an entity that carries both Collider<T> and CollidesWith<T> for the
\* same T, has a grid cell and has positive width and height is tested
\* against itself: every collisions<T> pass queues the insertion of a
\* Colliding<T> that lists the entity itself, and after the pass the entity
\* carries it.
C37_CollidesWithItself ==
    [][/\ \A t \in Tags :
             CollisionsSystem[t] \in ran' \ ran =>
                \A e \in entities :
                   SelfCollider(e, t) =>
                      /\ colliding_queue'[e][t].op = "insert"
                      /\ \E i \in 1..Len(colliding_queue'[e][t].list) :
                            colliding_queue'[e][t].list[i] = e
       /\ ApplyPreUpdateCommands =>
             \A t \in Tags : \A e \in entities :
                SelfCollider(e, t) =>
                   /\ colliding'[e][t].present
                   /\ \E i \in 1..Len(colliding'[e][t].list) :
                         colliding'[e][t].list[i] = e
      ]_vars

\* entity 1, a Collider<A> and CollidesWith<A>, carries a Colliding<A> that
\* lists entity 1 and nothing else
C37_Witness ==
    /\ stage = "update"
    /\ "A" \in collider[1] \cap collides_with[1]
    /\ hash_marker[1] # NoMarker
    /\ colliding[1]["A"].present
    /\ colliding[1]["A"].list = <<1>>

\* no value occurs twice in the sequence
NoRepeats(seq) ==
    \A i, j \in 1..Len(seq) : seq[i] = seq[j] => i = j

\* C38: for grid_size > 0 no entity identity appears more than once in any
\* Colliding<T> list, queued or carried: the nine cells an entity looks up
\* are pairwise distinct and each CollidesWith<T> entity is in the bucket of
\* one cell only.
C38_NoRepeatedIdentity ==
    /\ hash_grid > 0
    /\ \A e \in entities : \A t \in Tags :
          /\ NoRepeats(colliding[e][t].list)
          /\ NoRepeats(colliding_queue[e][t].list)
    /\ \A e \in entities :
          hash_marker[e] # NoMarker =>
             /\ NoRepeats(get_with_neighbors(hash_marker[e], hash_grid))
             /\ \A t \in Tags :
                   t \in collides_with[e] =>
                      \A cell \in {get_with_neighbors(hash_marker[e], hash_grid)[i] :
                                      i \in 1..9} :
                         (\E i \in 1..Len(Bucket(t, cell)) : Bucket(t, cell)[i] = e)
                            <=> cell = hash_marker[e]

\* collider 1 lists itself and entity 2, each once
C38_Witness ==
    /\ stage = "update"
    /\ colliding[1]["A"].present
    /\ colliding[1]["A"].list = <<1, 2>>
    /\ hash_marker[1] # hash_marker[2]


\* ---------------------------------------------------------------------------
\* Rendering: collect_instances and the draw loop of main_render_pass
\* (src/src/state.rs)

MaxRenderables == 4     \* entities carrying an Inst
MaxShape == 2           \* shape ids range over 0..MaxShape

\* what collect_instances reads of an entity: Instance2D.shape and the
\* outcome of the four comparisons of its position and scale with the camera
QueriedInstances == [shape : 0..MaxShape, in_view : BOOLEAN]

\* the shape ids of the instances pushed: those in view, in query order
RECURSIVE PushInView(_)
PushInView(query) ==
    IF query = <<>> THEN <<>>
    ELSE LET inst == Head(query) IN
         (IF inst.in_view THEN <<inst.shape>> ELSE <<>>)
             \o PushInView(Tail(query))

\* Vec::sort_by on the shape id: stable, ascending
RECURSIVE SortFrom(_, _)
SortFrom(list, shape) ==
    IF shape > MaxShape THEN <<>>
    ELSE SelectSeq(list, LAMBDA sh : sh = shape) \o SortFrom(list, shape + 1)

sort_by_shape(list) == SortFrom(list, 0)

\* the `for i in 0..total_len` loop from iteration i on, with the loop's s and
\* start and the draw calls issued so far; list[i + 1] is renderables.0[i]
RECURSIVE DrawLoop(_, _, _, _, _)
DrawLoop(list, i, s, start, calls) ==
    LET total_len == Len(list) IN
    IF i = total_len THEN calls
    ELSE IF list[i + 1] = s /\ i # total_len - 1
         THEN DrawLoop(list, i + 1, s, start, calls)
         ELSE LET end == IF i = total_len - 1 THEN total_len ELSE i IN
              DrawLoop(list, i + 1, list[i + 1], i,
                       Append(calls,
                              [shape |-> s, start |-> start, end |-> end]))

\* the draw_shape2d_instanced calls of the first render pass: none for an
\* empty list
DrawCalls(list) ==
    IF list = <<>> THEN <<>> ELSE DrawLoop(list, 0, list[1], 0, <<>>)

collect_instances ==
    /\ render_step = "collect"
    /\ renderables' =
           LET pushed == PushInView(instance_query) IN
           IF sort_renderables THEN sort_by_shape(pushed) ELSE pushed
    /\ render_step' = "pass"
    /\ UNCHANGED <<instance_query, sort_renderables, draw_calls>>
    /\ UNCHANGED <<schedule_vars, particle_vars, history_vars, collision_vars,
                   round_vars, input_vars>>

main_render_pass ==
    /\ render_step = "pass"
    /\ draw_calls' = DrawCalls(renderables)
    /\ render_step' = "presented"
    /\ UNCHANGED <<instance_query, sort_renderables, renderables>>
    /\ UNCHANGED <<schedule_vars, particle_vars, history_vars, collision_vars,
                   round_vars, input_vars>>

\* Any entities with an Inst, sorting on or off, before the frame's
\* collect_instances
InitRender ==
    /\ NoEmitter
    /\ NoEntities
    /\ NoRoundCall
    /\ NoInput
    /\ stage = "idle"
    /\ ran = {}
    /\ instance_query \in
           UNION {[1..n -> QueriedInstances] : n \in 0..MaxRenderables}
    /\ sort_renderables \in BOOLEAN
    /\ renderables = <<>>
    /\ draw_calls = <<>>
    /\ render_step = "collect"

NextRender ==
    \/ collect_instances
    \/ main_render_pass

SpecRender == InitRender /\ [][NextRender]_vars

\* the draw calls whose range start..end holds instance index i (0-based)
DrawsOf(i) ==
    {d \in 1..Len(draw_calls) :
        draw_calls[d].start <= i /\ i < draw_calls[d].end}

\* C39: after the render pass over a non-empty list of renderables (sorted or
\* not), each instance index 0..n-1 lies in the range of exactly one draw call,
\* and that draw call is issued with the instance's own shape id.
C39_DrawsPartitionByShape ==
    (render_step = "presented" /\ renderables # <<>>) =>
        \A i \in 0..(Len(renderables) - 1) :
            /\ Cardinality(DrawsOf(i)) = 1
            /\ \A d \in DrawsOf(i) : draw_calls[d].shape = renderables[i + 1]

=============================================================================
